---- MODULE Spec2Model ----
(***************************************************************************)
(* State-machine model of the jmLightToolkit panel (src/src/jmLightToolkit *)
(* .py, version 2.0).  The host scene is a small fixed population of       *)
(* nodes; every panel callback is one action that models the whole         *)
(* handler, its decorators included.                                       *)
(***************************************************************************)
EXTENDS Integers, Sequences, FiniteSets, TLC

VARIABLES
    selected,          \* pm.selected(): the host selection, an ordered list of nodes
    hierarchyChecked,  \* pushButton_soloLights_hierarchy.isChecked()
    layers,            \* display layers by name: exists / members / visibility
    layerConflict,     \* history: createDisplayLayer was issued while the name existed
    aiFilters,         \* per light shape, the aiFilters[i] array: the filter plugged at i
    filters,           \* the light filter nodes: existence and attributes
    preFilters,        \* history: aiFilters and filters as the last filter callback found them
    attrs,             \* value of every modelled attribute plug <<node, attribute>>
    preAttrs,          \* history: attrs as the last attribute callback found them
    links,             \* light linking: the pairs <<light transform, object>> that are linked
    preLinks,          \* history: links as the last link callback found them
    hostCmd,           \* history: the last host linking command and the selection it ran on
    helpers,           \* the display helper nodes of the scene: groups, meshes, expressions, shaders
    returned,          \* history: the value the last helper call handed to its caller
    optimizer,         \* the light optimizer: combo box text, min/max spin boxes, and
                       \* the scene's value of that attribute on every light shape
    css,               \* the style sheet of the buttons that show a scene state
    look,              \* look-through: the cameras below lights, the window toggle, and
                       \* the module globals MAIN_WINDOW and LOOK_WINDOW
    scan,              \* the position of a filter callback inside its index loops
    last               \* history: the callback that has just ended and how it ended
                       \* (cleared when the user touches the selection or a toggle)

userVars   == <<selected, hierarchyChecked>>
layerVars  == <<layers, layerConflict>>
filterVars == <<aiFilters, filters, preFilters>>
attrVars   == <<attrs, preAttrs>>
linkVars   == <<links, preLinks, hostCmd>>
helperVars == <<helpers, returned, optimizer>>
panelVars  == <<look, scan>>
vars == <<selected, hierarchyChecked, layers, layerConflict,
          aiFilters, filters, preFilters, attrs, preAttrs, links, preLinks, hostCmd,
          helpers, returned, optimizer, css, look, scan, last>>

\* what the callbacks of one panel section leave alone
offLayers  == <<filterVars, attrVars, linkVars, helperVars, panelVars>>
offFilters == <<layerVars, attrVars, linkVars, helperVars, panelVars, css>>
offAttrs   == <<layerVars, filterVars, linkVars, helperVars, panelVars, css>>
offLinks   == <<layerVars, filterVars, attrVars, helperVars, panelVars, css>>

----------------------------------------------------------------------------
(* Bounds of the model *)

MaxSel == 2        \* longest selection the user makes
MaxIdx == 3        \* number of aiFilters[i] plugs modelled per light
MaxVal == 2        \* attribute values are kept within -MaxVal .. MaxVal

----------------------------------------------------------------------------
(* The scene population *)

Transforms == {"key", "fill", "grp", "rim", "geo"}
Shapes     == {"keyShape", "fillShape", "rimShape", "geoShape"}
DagNodes   == Transforms \cup Shapes

NoNode == "<none>"

\* a display mesh as it stands in the selection after pm.select(display_mesh)
HelperMesh == "displayMesh"

\* the object sets of the scene and node.members(True), their flattened members
ObjectSets == {"setA", "setB"}

members(n) ==
    CASE n = "setA" -> <<"geo">>
      [] n = "setB" -> <<"fill", "rim">>
      [] OTHER      -> <<>>

\* pm.nodeType(node)
nodeType(n) ==
    CASE n \in Transforms  -> "transform"
      [] n \in ObjectSets  -> "objectSet"
      [] n = "keyShape"    -> "spotLight"
      [] n = "fillShape"   -> "aiAreaLight"
      [] n = "rimShape"    -> "pointLight"
      [] n = "geoShape"    -> "mesh"
      [] n = HelperMesh    -> "mesh"
      [] OTHER             -> "unknown"

\* node.getParent()
getParent(n) ==
    CASE n = "keyShape"  -> "key"
      [] n = "fillShape" -> "fill"
      [] n = "rimShape"  -> "rim"
      [] n = "geoShape"  -> "geo"
      [] n = "rim"       -> "grp"
      [] OTHER           -> NoNode

\* node.getShape(): the shape under a transform, None for a group
getShape(n) ==
    CASE n = "key"  -> "keyShape"
      [] n = "fill" -> "fillShape"
      [] n = "rim"  -> "rimShape"
      [] n = "geo"  -> "geoShape"
      [] OTHER      -> NoNode

\* node.getChildren(ad=True): every descendant, in depth-first order
getChildrenAD(n) ==
    CASE n = "grp"  -> <<"rim", "rimShape">>
      [] n = "key"  -> <<"keyShape">>
      [] n = "fill" -> <<"fillShape">>
      [] n = "rim"  -> <<"rimShape">>
      [] n = "geo"  -> <<"geoShape">>
      [] OTHER      -> <<>>

\* the light filter nodes of the scene and their node types
FilterNodes == {"blockerA", "blockerB", "decayA"}

filterType(f) ==
    CASE f = "blockerA" -> "aiLightBlocker"
      [] f = "blockerB" -> "aiLightBlocker"
      [] f = "decayA"   -> "aiLightDecay"
      [] OTHER          -> "unknown"

\* the light shapes whose aiFilters array is modelled, and its plugs
FilterLights == {"keyShape", "fillShape"}
Plugs        == 0 .. (MaxIdx - 1)

NoFilters == [l \in FilterLights |-> [i \in Plugs |-> NoNode]]

\* a freshly made filter: density 1, both attenuations off, nothing connected
DefaultFilters ==
    [f \in FilterNodes |->
        [exists |-> TRUE, density |-> 1, useNearAtten |-> FALSE, useFarAtten |-> FALSE,
         otherOut |-> FALSE]]

\* the attribute plugs that exist (pm.objExists("node.attr")): every light has
\* intensity, the spot and point lights have aiRadius, every transform has translateX
AttrPlugs ==
    {<<"keyShape", "intensity">>, <<"fillShape", "intensity">>, <<"rimShape", "intensity">>,
     <<"keyShape", "aiRadius">>, <<"rimShape", "aiRadius">>}
    \cup {<<t, "translateX">> : t \in Transforms}

DefaultAttrs == [p \in AttrPlugs |-> 0]

\* the host links every light to every mesh until told otherwise
DefaultLinks == {"key", "fill", "rim"} \X {"geo"}

NoHostCmd == [cmd |-> "none", sel |-> <<>>]

\* lines 56-60: the groups the display helpers are kept in
mtoa_utils_grp         == "mtoaUtils_C_001_GRUP"
display_radius_grp     == "displayRadius_C_001_GRUP"
display_blocker_grp    == "displayBlocker_C_001_GRUP"
display_decay_near_grp == "displayDecayNear_C_001_GRUP"
display_decay_far_grp  == "displayDecayFar_C_001_GRUP"

HelperGroups == {mtoa_utils_grp, display_radius_grp, display_blocker_grp,
                 display_decay_near_grp, display_decay_far_grp}

\* the names the display functions give their lambert shaders and shading groups
ShaderNames == {"displayRadius_SHAD", "displayBlocker_SHAD",
                "displayDecayStart_SHAD", "displayDecayEnd_SHAD"}
SdegNames   == {"displayRadius_SDEG", "displayBlocker_SDEG",
                "displayDecayStart_SDEG", "displayDecayEnd_SDEG",
                "startDisplayDecay_SDEG", "endDisplayDecay_SDEG"}

\* a scene without display helper.  groups and shaders: the nodes that exist;
\* sdeg: how many shading groups were made under each name and still exist (the
\* host numbers the later ones); meshes: the display meshes, each with its
\* local-space group and constraints; expressions: the expression nodes
NoHelpers ==
    [groups |-> {}, shaders |-> {}, sdeg |-> [n \in SdegNames |-> 0],
     meshes |-> {}, expressions |-> {}]

\* lines 62-63: the two looks of a button that shows a scene state
css_btn_on      == "QPushButton{color:rgb(250,220,120)}"
css_btn_default == "QPushButton{color:rgb(255,255,255)}"

\* 'setStyleSheet(css_btn_on) if pm.objExists(...) else setStyleSheet(css_btn_default)'
StyleFor(exists) == IF exists THEN css_btn_on ELSE css_btn_default

\* lines 282-289: the buttons as __init__ styles them on a scene without layer,
\* look-through camera or display group
DefaultStyles ==
    [b \in {"soloLights", "muteLights", "lookThrough", "displayRadius",
            "displayBlocker", "displayNearDecay", "displayFarDecay"} |-> css_btn_default]

\* the panel is open, nothing is looked through; 0 stands for None
DefaultLook ==
    [cams |-> {}, windowChecked |-> FALSE, MAIN_WINDOW |-> 1, LOOK_WINDOW |-> 0,
     toolkits |-> 1, lookWindows |-> 0, lightname |-> NoNode]

\* no filter callback is running
Idle == [op |-> "idle", arg |-> "", pc |-> "idle", i |-> 0, lgts |-> <<>>, rest |-> <<>>,
         filtrs |-> <<>>, driver_connection |-> <<>>, plugs |-> <<>>, doomed |-> {},
         index |-> 0, num_filter |-> 0]

\* nothing returned yet
NoValue == [isNone |-> TRUE, list |-> <<>>]

\* the light shapes of the scene
LightShapes == {"keyShape", "fillShape", "rimShape"}

\* the optimizer as the panel opens: first combo box item, spin boxes at rest
DefaultOptimizer ==
    [attr |-> "aiSamples", min |-> 0, max |-> 0, value |-> [l \in LightShapes |-> 0]]

lgt_types_default == {"pointLight", "spotLight", "areaLight", "directionalLight", "volumeLight"}
lgt_types_arnold  == {"aiAreaLight", "aiMeshLight", "aiPhotometricLight", "aiSkyDomeLight"}
lgt_types         == lgt_types_default \cup lgt_types_arnold

----------------------------------------------------------------------------
(* Sequence helpers *)

Range(s) == {s[i] : i \in DOMAIN s}

RECURSIVE SeqFilter(_, _)
\* order-preserving sublist of s whose elements are in the set keep
SeqFilter(s, keep) ==
    IF s = <<>> THEN <<>>
    ELSE IF Head(s) \in keep THEN <<Head(s)>> \o SeqFilter(Tail(s), keep)
         ELSE SeqFilter(Tail(s), keep)

RECURSIVE SeqMap(_, _)
\* [f[x] for x in s] for a function f
SeqMap(s, f) ==
    IF s = <<>> THEN <<>> ELSE <<f[Head(s)]>> \o SeqMap(Tail(s), f)

RECURSIVE Flatten(_)
Flatten(ss) ==
    IF ss = <<>> THEN <<>> ELSE Head(ss) \o Flatten(Tail(ss))

\* every list without repetition over the set S, of length at most n
DistinctSeqs(S, n) ==
    UNION { { s \in [1..k -> S] : \A i, j \in 1..k : i # j => s[i] # s[j] } : k \in 0..n }

----------------------------------------------------------------------------
(* Selection classifier *)

\* lines 2091-2098: the selection, or the non-transform descendants of each selected node
SelectionPool(sel, all_hierachy) ==
    IF all_hierachy
    THEN Flatten([i \in DOMAIN sel |->
             SeqFilter(getChildrenAD(sel[i]), DagNodes \ Transforms)])
    ELSE sel

\* lines 2100-2110: a transform stands for its shape; keep the light shapes
LightShapesOf(pool) ==
    LET toShape == [n \in Range(pool) |->
                       IF nodeType(n) = "transform" THEN getShape(n) ELSE n]
    IN  SeqFilter(SeqMap(pool, toShape), {n \in Shapes : nodeType(n) \in lgt_types})

\* the classifier without the 'if not lights: return None' of lines 2112-2115
_onlyLightsFromSelectionKeepsEmpty(sel, get_shapes, all_hierachy) ==
    LET lights == LightShapesOf(SelectionPool(sel, all_hierachy))
        parent == [n \in DagNodes |-> getParent(n)]
    IN  [isNone |-> FALSE,
         list   |-> IF get_shapes THEN lights ELSE SeqMap(lights, parent)]

\* _onlyLightsFromSelection: None when no light is found, else shapes or transforms
_onlyLightsFromSelection(sel, get_shapes, all_hierachy) ==
    LET lights == LightShapesOf(SelectionPool(sel, all_hierachy))
        parent == [n \in DagNodes |-> getParent(n)]
    IN  IF lights = <<>>
        THEN [isNone |-> TRUE, list |-> <<>>]
        ELSE [isNone |-> FALSE,
              list   |-> IF get_shapes THEN lights ELSE SeqMap(lights, parent)]

\* _getAllLights(): the transforms of every light shape of the scene
_getAllLights == {getParent(n) : n \in {s \in Shapes : nodeType(s) \in lgt_types}}

----------------------------------------------------------------------------
(* Decorators *)

\* what a callback body hands back: its return value (as a tag), whether it
\* raised, whether it issued a scene-mutating host command, and the
\* pm.undoInfo commands issued by the wrapped calls it made, in order
Outcome(ret, raised, mutated) ==
    [ret |-> ret, raised |-> raised, mutated |-> mutated, undo |-> <<>>]

\* a body that called another wrapped method of the panel on its way
AfterCalling(inner, out) ==
    [out EXCEPT !.undo = inner.undo \o @]

\* the wrapper with closeChunk after the call instead of in a finally clause
_wrapperUndoChunckNoFinally(out) ==
    [ret |-> "None", raised |-> out.raised, mutated |-> out.mutated, chunked |-> TRUE,
     undo |-> IF out.raised THEN <<"openChunk">> \o out.undo
              ELSE <<"openChunk">> \o out.undo \o <<"closeChunk">>]

\* _wrapperUndoChunck: openChunk, call, closeChunk in the finally clause; the
\* wrapper has no return statement, so the caller receives None
_wrapperUndoChunck(out) ==
    [ret |-> "None", raised |-> out.raised, mutated |-> out.mutated, chunked |-> TRUE,
     undo |-> <<"openChunk">> \o out.undo \o <<"closeChunk">>]

\* an undecorated callback: no chunk is opened, the return value goes through
Undecorated(out) ==
    [ret |-> out.ret, raised |-> out.raised, mutated |-> out.mutated, chunked |-> FALSE,
     undo |-> out.undo]

\* _wrapperSelected: the body's return value is dropped as well
_wrapperSelected(out) ==
    [Outcome("None", out.raised, out.mutated) EXCEPT !.undo = out.undo]

\* the host's select command takes a set for its members unless told noExpand
ExpandedForSelect(nodes) ==
    Flatten([i \in DOMAIN nodes |->
                IF nodeType(nodes[i]) = "objectSet" THEN members(nodes[i]) ELSE <<nodes[i]>>])

RECURSIVE AddToSelection(_, _)
AddToSelection(sel, nodes) ==
    IF nodes = <<>> THEN sel
    ELSE IF Head(nodes) \in Range(sel) THEN AddToSelection(sel, Tail(nodes))
    ELSE AddToSelection(Append(sel, Head(nodes)), Tail(nodes))

\* pm.select(nodes, add=True): nodes not yet selected join the end of the selection
SelectAdd(sel, nodes) == AddToSelection(sel, ExpandedForSelect(nodes))

\* pm.select(nodes): the nodes become the selection, each one once
SelectList(nodes) == SelectAdd(<<>>, nodes)

\* pm.select(selected) in the finally clause of _wrapperSelected, whatever the
\* body left selected
RestoreSelection(saved, left_by_body) == SelectList(saved)

\* the record kept of the most recent callback
Called(op, arg, sel, res) ==
    [op |-> op, arg |-> arg, sel |-> sel, ret |-> res.ret, raised |-> res.raised,
     mutated |-> res.mutated, chunked |-> res.chunked, undo |-> res.undo]

NoCall ==
    [op |-> "none", arg |-> "", sel |-> <<>>, ret |-> "None", raised |-> FALSE,
     mutated |-> FALSE, chunked |-> FALSE, undo |-> <<>>]

----------------------------------------------------------------------------
(* Display layers *)

displayed_layer_name == "displayedLights"
muted_layer_name     == "mutedLights"

\* the name the host gives a node created under a name already taken
ClashName(n) == IF n = displayed_layer_name THEN "displayedLights1" ELSE "mutedLights1"

LayerNames == {displayed_layer_name, muted_layer_name,
               ClashName(displayed_layer_name), ClashName(muted_layer_name)}

NoLayer == [exists |-> FALSE, members |-> {}, visibility |-> TRUE]

\* pm.objExists(name)
objExistsLayer(ls, n) == ls[n].exists

\* __soloMuteLightsCSS, lines 402-412
soloMuteLightsCSS(c, ls) ==
    [c EXCEPT !["soloLights"] = StyleFor(objExistsLayer(ls, displayed_layer_name)),
              !["muteLights"] = StyleFor(objExistsLayer(ls, muted_layer_name))]

\* pm.createDisplayLayer(n=name) with nothing selected: an empty, visible layer.
\* The host never gives two nodes one name: a taken name gets a suffix.
createDisplayLayer(ls, n) ==
    LET name == IF ls[n].exists THEN ClashName(n) ELSE n
    IN  [ls EXCEPT ![name] = [exists |-> TRUE, members |-> {}, visibility |-> TRUE]]

\* layer.addMembers(nodes): a node belongs to one display layer at a time
addMembers(ls, n, nodes) ==
    [m \in LayerNames |->
        IF m = n THEN [ls[m] EXCEPT !.members = @ \cup nodes]
        ELSE [ls[m] EXCEPT !.members = @ \ nodes]]

\* layer.visibility.set(0)
hideLayer(ls, n) == [ls EXCEPT ![n].visibility = FALSE]

\* pm.delete(layer)
deleteLayer(ls, n) == [ls EXCEPT ![n] = NoLayer]

\* restoreLights, lines 383-400: delete whichever of the two layers exists
restoreLightsBody(ls) ==
    LET d   == objExistsLayer(ls, displayed_layer_name)
        ls1 == IF d THEN deleteLayer(ls, displayed_layer_name) ELSE ls
        m   == objExistsLayer(ls1, muted_layer_name)
        ls2 == IF m THEN deleteLayer(ls1, muted_layer_name) ELSE ls1
        something_deleted == d \/ m
    IN  [layers |-> ls2, conflict |-> FALSE,
         out |-> Outcome(IF something_deleted THEN "True" ELSE "False", FALSE, something_deleted)]

\* soloLights, lines 321-352
soloLightsBody(ls, sel, hier) ==
    LET restore  == restoreLightsBody(ls)                 \* line 327: a wrapped call
        restored == restore.layers
        inner    == _wrapperUndoChunck(restore.out)
        found    == _onlyLightsFromSelection(sel, FALSE, hier)
        shown    == Range(found.list)
        muted    == _getAllLights \ shown                 \* line 337
        ls1 == createDisplayLayer(restored, muted_layer_name)
        ls2 == hideLayer(addMembers(ls1, muted_layer_name, muted), muted_layer_name)
        ls3 == createDisplayLayer(ls2, displayed_layer_name)
        ls4 == addMembers(ls3, displayed_layer_name, shown)
    IN  IF found.isNone
        THEN [layers |-> restored, conflict |-> FALSE, selected |-> sel,
              out |-> AfterCalling(inner, Outcome("None", FALSE, restored # ls))]
        ELSE [layers |-> ls4,
              conflict |-> objExistsLayer(restored, muted_layer_name)
                           \/ objExistsLayer(ls2, displayed_layer_name),
              selected |-> <<>>,                            \* line 340
              out |-> AfterCalling(inner, Outcome("list", FALSE, TRUE))]

\* muteLights without the objExists test of line 370: the layer is always created
muteLightsAlwaysCreates(ls, sel, hier) ==
    LET found == _onlyLightsFromSelection(sel, FALSE, hier)
        lights == Range(found.list)
        ls1 == createDisplayLayer(ls, muted_layer_name)
        made == IF ls[muted_layer_name].exists THEN ClashName(muted_layer_name)
                ELSE muted_layer_name
    IN  IF found.isNone
        THEN [layers |-> ls, conflict |-> FALSE, selected |-> sel,
              out |-> Outcome("None", FALSE, FALSE)]
        ELSE [layers |-> hideLayer(addMembers(ls1, made, lights), made),
              conflict |-> objExistsLayer(ls, muted_layer_name), selected |-> <<>>,
              out |-> Outcome("list", FALSE, TRUE)]

\* muteLights, lines 356-381
muteLightsBody(ls, sel, hier) ==
    LET found == _onlyLightsFromSelection(sel, FALSE, hier)
        lights == Range(found.list)
        ls1 == createDisplayLayer(ls, muted_layer_name)
    IN  IF found.isNone
        THEN [layers |-> ls, conflict |-> FALSE, selected |-> sel,
              out |-> Outcome("None", FALSE, FALSE)]
        ELSE IF objExistsLayer(ls, muted_layer_name)       \* line 370
        THEN [layers |-> addMembers(ls, muted_layer_name, lights), conflict |-> FALSE,
              selected |-> sel, out |-> Outcome("list", FALSE, TRUE)]
        ELSE [layers |-> hideLayer(addMembers(ls1, muted_layer_name, lights), muted_layer_name),
              conflict |-> objExistsLayer(ls, muted_layer_name),
              selected |-> <<>>,                            \* line 373
              out |-> Outcome("list", FALSE, TRUE)]

\* the three buttons; the decorated callbacks leave the selection as they found it
soloLights ==
    LET b == soloLightsBody(layers, selected, hierarchyChecked)
    IN  /\ layers' = b.layers
        /\ layerConflict' = (layerConflict \/ b.conflict)
        /\ selected' = RestoreSelection(selected, b.selected)
        /\ css' = LET restore == restoreLightsBody(layers)       \* lines 327, 396, 350
                       c1 == IF restore.out.ret = "True"
                             THEN soloMuteLightsCSS(css, restore.layers) ELSE css
                   IN  IF b.out.ret = "list" THEN soloMuteLightsCSS(c1, b.layers) ELSE c1
        /\ last' = Called("soloLights", "", selected, _wrapperUndoChunck(_wrapperSelected(b.out)))
        /\ UNCHANGED <<hierarchyChecked, offLayers>>

muteLights ==
    LET b == muteLightsBody(layers, selected, hierarchyChecked)
    IN  /\ layers' = b.layers
        /\ layerConflict' = (layerConflict \/ b.conflict)
        /\ selected' = RestoreSelection(selected, b.selected)
        /\ css' = IF b.out.ret = "list" THEN soloMuteLightsCSS(css, b.layers) ELSE css
        /\ last' = Called("muteLights", "", selected, _wrapperUndoChunck(_wrapperSelected(b.out)))
        /\ UNCHANGED <<hierarchyChecked, offLayers>>

restoreLights ==
    LET b == restoreLightsBody(layers)
    IN  /\ layers' = b.layers
        /\ layerConflict' = (layerConflict \/ b.conflict)
        /\ css' = IF b.out.ret = "True" THEN soloMuteLightsCSS(css, b.layers) ELSE css
        /\ last' = Called("restoreLights", "", selected, _wrapperUndoChunck(b.out))
        /\ UNCHANGED <<userVars, offLayers>>

\* the user picks nodes in the viewport or the outliner
LayerSelections == DistinctSeqs(DagNodes, MaxSel)

SelectNodes ==
    /\ \E sel \in LayerSelections : selected' = sel
    /\ last' = NoCall
    /\ UNCHANGED <<css, hierarchyChecked, layerVars, offLayers>>

\* the user clicks the hierarchy toggle
ToggleHierarchy ==
    /\ hierarchyChecked' = ~hierarchyChecked
    /\ last' = NoCall
    /\ UNCHANGED <<css, selected, layerVars, offLayers>>

Init ==
    /\ selected = <<>>
    /\ hierarchyChecked = FALSE
    /\ layers = [n \in LayerNames |-> NoLayer]
    /\ layerConflict = FALSE
    /\ aiFilters = NoFilters
    /\ filters = DefaultFilters
    /\ preFilters = [aiFilters |-> NoFilters, filters |-> DefaultFilters]
    /\ attrs = DefaultAttrs
    /\ preAttrs = DefaultAttrs
    /\ links = DefaultLinks
    /\ preLinks = DefaultLinks
    /\ hostCmd = NoHostCmd
    /\ helpers = NoHelpers
    /\ returned = NoValue
    /\ optimizer = DefaultOptimizer
    /\ css = DefaultStyles
    /\ look = DefaultLook
    /\ scan = Idle
    /\ last = NoCall

Next ==
    \/ SelectNodes
    \/ ToggleHierarchy
    \/ soloLights
    \/ muteLights
    \/ restoreLights

Spec == Init /\ [][Next]_vars

----------------------------------------------------------------------------
(* Claims about the display layers *)

\* C1: over any sequence of soloLights, muteLights and restoreLights calls the
\* scene holds at most one layer made under the name 'displayedLights' and at
\* most one made under 'mutedLights', and no layer-creating call was issued
\* while a layer of that name existed.
C1_OneLayerPerName ==
    /\ ~layerConflict
    /\ \A n \in {displayed_layer_name, muted_layer_name} :
          Cardinality({m \in {n, ClashName(n)} : layers[m].exists}) <= 1

\* muteLights has just run on a scene that already had both layers
C1_Witness ==
    /\ last.op = "muteLights"
    /\ last.mutated
    /\ layers[displayed_layer_name].exists
    /\ layers[muted_layer_name].exists
    /\ Cardinality(layers[muted_layer_name].members) >= 2

\* the lights a selection designates: a light whose transform or shape is
\* selected and, with the hierarchy toggle on, a light below a selected node
IsBelow(n, a) ==
    \/ getParent(n) = a
    \/ getParent(n) # NoNode /\ getParent(getParent(n)) = a
    \/ getParent(n) # NoNode /\ getParent(getParent(n)) # NoNode
         /\ getParent(getParent(getParent(n))) = a

SelectedLights(sel, hier) ==
    {t \in _getAllLights :
        \/ t \in Range(sel)
        \/ getShape(t) \in Range(sel)
        \/ hier /\ \E a \in Range(sel) : IsBelow(getShape(t), a)}

\* C4: after soloLights with at least one light in the selection,
\* 'displayedLights' holds exactly the selected lights and 'mutedLights', hidden,
\* holds exactly the other lights of the scene.
C4_SoloPartitionsLights ==
    (last.op = "soloLights" /\ SelectedLights(last.sel, hierarchyChecked) # {}) =>
        /\ layers[displayed_layer_name].exists
        /\ layers[displayed_layer_name].members = SelectedLights(last.sel, hierarchyChecked)
        /\ layers[muted_layer_name].exists
        /\ layers[muted_layer_name].members
              = _getAllLights \ SelectedLights(last.sel, hierarchyChecked)
        /\ ~layers[muted_layer_name].visibility

----------------------------------------------------------------------------
(* Filter housekeeping *)

\* the plugs of an aiFilters array that have an incoming connection
ConnectedPlugs(arr) == {i \in DOMAIN arr : arr[i] # NoNode}

\* every ordering of a finite set, as lists
Orderings(S) == {s \in [1..Cardinality(S) -> S] : Range(s) = S}

\* lightfilter.outputs(): any outgoing connection, to a light or to anything else
outputs(f, af, fs) ==
    fs[f].otherOut \/ \E l \in FilterLights : \E i \in Plugs : af[l][i] = f

\* the null test forgotten: every connected filter of the type counts as null
NullFiltersIgnoresValue(ai_filter, connected, fs) ==
    IF ai_filter \in {"aiLightBlocker", "aiLightDecay"} THEN connected ELSE {}

\* getUnusedLightFilters lines 1737-1747: the connected filters whose value is null
NullFilters(ai_filter, connected, fs) ==
    IF ai_filter = "aiLightBlocker"
    THEN {f \in connected : fs[f].density = 0}
    ELSE IF ai_filter = "aiLightDecay"
    THEN {f \in connected : ~fs[f].useNearAtten /\ ~fs[f].useFarAtten}
    ELSE {}

\* getUnusedLightFilters, lines 1708-1755
getUnusedLightFilters(ai_filter, af, fs) ==
    LET all_lightfilters == {f \in FilterNodes : fs[f].exists /\ filterType(f) = ai_filter}
        disconnected == {f \in all_lightfilters : ~outputs(f, af, fs)}
        connected    == all_lightfilters \ disconnected
        null         == NullFilters(ai_filter, connected, fs)
    IN  IF ai_filter \notin {"aiLightDecay", "aiLightBlocker"} \/ all_lightfilters = {}
           \/ (disconnected = {} /\ null = {})
        THEN [isNone |-> TRUE, disconnected |-> {}, null |-> {}]
        ELSE [isNone |-> FALSE, disconnected |-> disconnected, null |-> null]

RECURSIVE ShiftLoop(_, _, _, _, _)
\* the while loop of lines 1789-1800 from counter i on: unplug the null filter at
\* its index, move each later plug one index down.  An empty plug read at line
\* 1795 gives '' and pm.PyNode('') raises; the loop stops there.
ShiftLoop(arr, lightfilter, index, num_filter, i) ==
    IF i >= num_filter THEN [arr |-> arr, raised |-> FALSE]
    ELSE IF i = index
    THEN IF arr[i] # lightfilter
         THEN [arr |-> arr, raised |-> TRUE]           \* nothing to disconnect
         ELSE ShiftLoop([arr EXCEPT ![i] = NoNode], lightfilter, index, num_filter, i + 1)
    ELSE IF i > index
    THEN IF arr[i] = NoNode
         THEN [arr |-> arr, raised |-> TRUE]           \* pm.PyNode('')
         ELSE ShiftLoop([arr EXCEPT ![i] = NoNode, ![i - 1] = arr[i]],
                        lightfilter, index, num_filter, i + 1)
    ELSE ShiftLoop(arr, lightfilter, index, num_filter, i + 1)

RECURSIVE UnplugFromLights(_, _, _)
\* lines 1784-1800 for one null filter: plugs is the list of (light, index)
\* destinations of its message attribute, read once before the loop
UnplugFromLights(af, lightfilter, plugs) ==
    IF plugs = <<>> THEN [aiFilters |-> af, raised |-> FALSE]
    ELSE LET light == Head(plugs)[1]
             index == Head(plugs)[2]
             num_filter == Cardinality(ConnectedPlugs(af[light]))   \* line 1786
             r == ShiftLoop(af[light], lightfilter, index, num_filter, 0)
             af1 == [af EXCEPT ![light] = r.arr]
         IN  IF r.raised THEN [aiFilters |-> af1, raised |-> TRUE]
             ELSE UnplugFromLights(af1, lightfilter, Tail(plugs))

\* pm.connectionInfo(message, dfs=True) kept to the aiFilters destinations, in
\* the order the host lists the lights
MessagePlugs(af, lightfilter, lightOrder) ==
    LET on(l) == {i \in Plugs : af[l][i] = lightfilter}
        one(l) == IF on(l) = {} THEN <<>> ELSE <<<<l, CHOOSE i \in on(l) : TRUE>>>>
    IN  Flatten([k \in DOMAIN lightOrder |-> one(lightOrder[k])])

RECURSIVE UnplugNullFilters(_, _, _)
\* lines 1779-1800: every null filter in turn
UnplugNullFilters(af, nullOrder, lightOrder) ==
    IF nullOrder = <<>> THEN [aiFilters |-> af, raised |-> FALSE]
    ELSE LET r == UnplugFromLights(af, Head(nullOrder),
                                   MessagePlugs(af, Head(nullOrder), lightOrder))
         IN  IF r.raised THEN r
             ELSE UnplugNullFilters(r.aiFilters, Tail(nullOrder), lightOrder)

\* pm.delete of a set of filter nodes: the host drops their connections too
deleteFilters(af, fs, doomed) ==
    [aiFilters |-> [l \in FilterLights |-> [i \in Plugs |->
                        IF af[l][i] \in doomed THEN NoNode ELSE af[l][i]]],
     filters   |-> [f \in FilterNodes |->
                        IF f \in doomed THEN [fs[f] EXCEPT !.exists = FALSE, !.otherOut = FALSE]
                        ELSE fs[f]]]

\* deleteSafelyLightFilter, lines 1757-1812; nullOrder and lightOrder are the
\* orders in which the host lists the null filters and the lights
deleteSafelyLightFilterBody(ai_filter, af, fs, nullOrder, lightOrder) ==
    LET lightfilters == getUnusedLightFilters(ai_filter, af, fs)
        unplugged == UnplugNullFilters(af, nullOrder, lightOrder)
        deleted   == deleteFilters(unplugged.aiFilters, fs,
                                   lightfilters.disconnected \cup lightfilters.null)
    IN  IF lightfilters.isNone
        THEN [aiFilters |-> af, filters |-> fs, out |-> Outcome("None", FALSE, FALSE)]
        ELSE IF unplugged.raised
        THEN [aiFilters |-> unplugged.aiFilters, filters |-> fs,
              out |-> Outcome("None", TRUE, unplugged.aiFilters # af)]
        ELSE [aiFilters |-> deleted.aiFilters, filters |-> deleted.filters,
              out |-> Outcome("list", FALSE, TRUE)]

\* the 'delete unused' buttons (lines 263-264)
deleteSafelyLightFilter(ai_filter) ==
    \E nullOrder \in Orderings(getUnusedLightFilters(ai_filter, aiFilters, filters).null) :
    \E lightOrder \in Orderings(FilterLights) :
        LET b == deleteSafelyLightFilterBody(ai_filter, aiFilters, filters, nullOrder, lightOrder)
        IN  /\ aiFilters' = b.aiFilters
            /\ filters' = b.filters
            /\ preFilters' = [aiFilters |-> aiFilters, filters |-> filters]
            /\ last' = Called("deleteSafelyLightFilter", ai_filter, selected,
                              _wrapperUndoChunck(b.out))
            /\ UNCHANGED <<userVars, offFilters>>

deleteUnusedBlocker == deleteSafelyLightFilter("aiLightBlocker")
deleteUnusedDecay   == deleteSafelyLightFilter("aiLightDecay")

\* a scene as the artist may have left it: each filter plugged at most once per
\* light, with any attribute values.  The key light's array is arbitrary (plugs
\* may have been disconnected by hand); the fill light's array has no gap.
FilterArrays ==
    {arr \in [Plugs -> FilterNodes \cup {NoNode}] :
        \A i, j \in Plugs : (i # j /\ arr[i] # NoNode) => arr[i] # arr[j]}

DenseFilterArrays ==
    {arr \in FilterArrays : \A i \in Plugs : arr[i] # NoNode => \A j \in 0..i : arr[j] # NoNode}

FilterScenes ==
    {af \in [FilterLights -> FilterArrays] : af["fillShape"] \in DenseFilterArrays}

FilterSettings ==
    {fs \in [FilterNodes -> [exists : {TRUE}, density : {0, 1}, useNearAtten : BOOLEAN,
                             useFarAtten : BOOLEAN, otherOut : BOOLEAN]] :
        /\ fs["decayA"].density = 1
        /\ ~fs["blockerA"].useNearAtten /\ ~fs["blockerA"].useFarAtten
        /\ ~fs["blockerB"].useNearAtten /\ ~fs["blockerB"].useFarAtten
        /\ ~fs["blockerA"].otherOut /\ ~fs["decayA"].otherOut}

InitFilters ==
    /\ selected = <<>>
    /\ hierarchyChecked = FALSE
    /\ layers = [n \in LayerNames |-> NoLayer]
    /\ layerConflict = FALSE
    /\ aiFilters \in FilterScenes
    /\ filters \in FilterSettings
    /\ preFilters = [aiFilters |-> aiFilters, filters |-> filters]
    /\ attrs = DefaultAttrs
    /\ preAttrs = DefaultAttrs
    /\ links = DefaultLinks
    /\ preLinks = DefaultLinks
    /\ hostCmd = NoHostCmd
    /\ helpers = NoHelpers
    /\ returned = NoValue
    /\ optimizer = DefaultOptimizer
    /\ css = DefaultStyles
    /\ look = DefaultLook
    /\ scan = Idle
    /\ last = NoCall

NextFilters ==
    \/ deleteUnusedBlocker
    \/ deleteUnusedDecay

SpecFilters == InitFilters /\ [][NextFilters]_vars

----------------------------------------------------------------------------
(* Claims about filter housekeeping *)

\* the lights a filter is plugged into
LightsOf(f, af) == {l \in FilterLights : \E i \in Plugs : af[l][i] = f}

\* a filter without effect: a blocker of density zero, a decay with both attenuations off
IsInert(f, fs) ==
    \/ filterType(f) = "aiLightBlocker" /\ fs[f].density = 0
    \/ filterType(f) = "aiLightDecay" /\ ~fs[f].useNearAtten /\ ~fs[f].useFarAtten

HasOutput(f, af, fs) == fs[f].otherOut \/ LightsOf(f, af) # {}

RECURSIVE PlugList(_, _)
\* the filters of an array in index order, from plug i on, unconnected plugs skipped
PlugList(arr, i) ==
    IF i \notin DOMAIN arr THEN <<>>
    ELSE (IF arr[i] = NoNode THEN <<>> ELSE <<arr[i]>>) \o PlugList(arr, i + 1)

\* the filters of the called type that the call is to remove from the lights
InertOfType(ai_filter, fs) ==
    {f \in FilterNodes : fs[f].exists /\ filterType(f) = ai_filter /\ IsInert(f, fs)}

\* C3: after deleteSafelyLightFilter, on every light that carried a null filter
\* the surviving filters sit at indices 0..k-1 without a gap, in their original
\* order, and the removed filters sit at no index; for every initial
\* arrangement, sparse ones included.
C3_SurvivorsCompacted ==
    last.op = "deleteSafelyLightFilter" =>
        LET gone == InertOfType(last.arg, preFilters.filters)
        IN  \A l \in FilterLights :
                (\E i \in Plugs : preFilters.aiFilters[l][i] \in gone) =>
                    LET survivors == SeqFilter(PlugList(preFilters.aiFilters[l], 0),
                                               FilterNodes \ gone)
                    IN  \A i \in Plugs :
                            aiFilters[l][i] = IF i < Len(survivors) THEN survivors[i + 1]
                                              ELSE NoNode

----------------------------------------------------------------------------
(* Attribute batch editor *)

lgt_attrs_default ==
    {"coneAngle", "penumbraAngle", "transmission", "dropoff", "decayRate", "emitDiffuse",
     "emitSpecular", "intensity", "shadowColor", "fogSpread", "fogIntensity", "camera",
     "format", "portalMode", "color"}

lgt_attrs_arnold ==
    {"aiExposure", "aiSamples", "aiUseColorTemperature", "aiColorTemperature", "aiRadius",
     "aiAngle", "aiSpread", "aiDiffuse", "aiSpecular", "aiSss", "aiIndirect", "aiVolume",
     "aiMaxBounces", "aiNormalize", "aiRoundness", "aiCastShadows", "aiShadowDensity",
     "aiAspectRatio", "aiLensRadius", "aiVolumeSamples", "aiCastVolumetricShadows",
     "aiShadowColor"}

lgt_attrs == lgt_attrs_default \cup lgt_attrs_arnold

transform_attrs ==
    {"translateX", "translateY", "translateZ", "rotateX", "rotateY", "rotateZ",
     "scaleX", "scaleY", "scaleZ"}

\* pm.objExists("%s.%s" % (node, attr_))
objExistsAttr(node, attr_) == <<node, attr_>> \in AttrPlugs

\* lines 628-632 / 643-647: set the value, or add it to the current one
SetOrAdd(at, node, attr_, mode, value) ==
    IF mode = "absolute"
    THEN [at EXCEPT ![<<node, attr_>>] = value]
    ELSE [at EXCEPT ![<<node, attr_>>] = value + at[<<node, attr_>>]]

RECURSIVE SetOnLightsStopsAtMissing(_, _, _, _, _)
\* the loop leaving at the first light without the attribute
SetOnLightsStopsAtMissing(at, lights, attr_, mode, value) ==
    IF lights = <<>> THEN at
    ELSE IF objExistsAttr(Head(lights), attr_)
    THEN SetOnLightsStopsAtMissing(SetOrAdd(at, Head(lights), attr_, mode, value),
                                   Tail(lights), attr_, mode, value)
    ELSE at

RECURSIVE SetOnLights(_, _, _, _, _)
\* lines 626-634: each light of the list in turn; a light without the attribute
\* is logged and skipped
SetOnLights(at, lights, attr_, mode, value) ==
    IF lights = <<>> THEN at
    ELSE IF objExistsAttr(Head(lights), attr_)
    THEN SetOnLights(SetOrAdd(at, Head(lights), attr_, mode, value),
                     Tail(lights), attr_, mode, value)
    ELSE SetOnLights(at, Tail(lights), attr_, mode, value)

RECURSIVE SetOnSelected(_, _, _, _, _)
\* lines 638-649: each selected node in turn, a shape standing for its parent
SetOnSelected(at, sel, attr_, mode, value) ==
    IF sel = <<>> THEN at
    ELSE LET node == IF nodeType(Head(sel)) # "transform" THEN getParent(Head(sel))
                     ELSE Head(sel)
         IN  IF objExistsAttr(node, attr_)
             THEN SetOnSelected(SetOrAdd(at, node, attr_, mode, value),
                                Tail(sel), attr_, mode, value)
             ELSE SetOnSelected(at, Tail(sel), attr_, mode, value)

\* setMultiAttributesLights, lines 606-652; attr_ is the combo box text and value
\* the spin box value
setMultiAttributesLightsBody(mode, attr_, value, sel, at) ==
    LET found == _onlyLightsFromSelection(sel, TRUE, FALSE)
        at1 == IF attr_ \in lgt_attrs
               THEN SetOnLights(at, found.list, attr_, mode, value)
               ELSE SetOnSelected(at, sel, attr_, mode, value)
    IN  IF mode \notin {"absolute", "relative"} \/ found.isNone
        THEN [attrs |-> at, out |-> Outcome("None", FALSE, FALSE)]
        ELSE [attrs |-> at1, out |-> Outcome("dict", FALSE, at1 # at)]

AttrRange == (0 - MaxVal) .. MaxVal

\* the 'set' and 'increment' buttons (lines 199-200); values are kept in AttrRange
setMultiAttributesLights(mode, attr_, value) ==
    LET b == setMultiAttributesLightsBody(mode, attr_, value, selected, attrs)
    IN  /\ \A p \in AttrPlugs : b.attrs[p] \in AttrRange
        /\ attrs' = b.attrs
        /\ preAttrs' = attrs
        /\ last' = Called("setMultiAttributesLights",
                          [mode |-> mode, attr |-> attr_, value |-> value],
                          selected, _wrapperUndoChunck(b.out))
        /\ UNCHANGED <<userVars, offAttrs>>

\* what the user may have in the spin box
SpinValues == {0 - 1, 0, 1}

\* the user picks among two lights with aiRadius and one without
AttrSelections == DistinctSeqs({"key", "keyShape", "fill", "rim"}, MaxSel)

SelectForAttrs ==
    /\ \E sel \in AttrSelections : selected' = sel
    /\ last' = NoCall
    /\ preAttrs' = attrs
    /\ UNCHANGED <<hierarchyChecked, attrs, offAttrs>>

\* the user picks among a light, its shape and a mesh
ChannelSelections == DistinctSeqs({"key", "keyShape", "geo"}, MaxSel)

SelectForChannels ==
    /\ \E sel \in ChannelSelections : selected' = sel
    /\ last' = NoCall
    /\ preAttrs' = attrs
    /\ UNCHANGED <<hierarchyChecked, attrs, offAttrs>>

setNewValue(attr_)     == \E v \in SpinValues : setMultiAttributesLights("absolute", attr_, v)
incrementeValue(attr_) == \E v \in SpinValues : setMultiAttributesLights("relative", attr_, v)

\* the combo box on a light attribute
NextLightAttrs ==
    \/ SelectForAttrs
    \/ setNewValue("aiRadius")
    \/ incrementeValue("aiRadius")

SpecLightAttrs == Init /\ [][NextLightAttrs]_vars

\* the combo box on a transform channel
NextChannels ==
    \/ SelectForChannels
    \/ setNewValue("translateX")
    \/ incrementeValue("translateX")

SpecChannels == Init /\ [][NextChannels]_vars

----------------------------------------------------------------------------
(* Claims about the attribute batch editor *)

\* the light shapes a selection designates, by their transform or directly
SelectedLightShapes(sel) ==
    {n \in Shapes : nodeType(n) \in lgt_types /\ (n \in Range(sel) \/ getParent(n) \in Range(sel))}

SetMultiCalled(mode) ==
    last.op = "setMultiAttributesLights" /\ last.arg.mode = mode

\* C7: after setMultiAttributesLights('absolute') on a light attribute A with
\* value V, every selected light shape that has A has A = V, and nothing else
\* changes: not a selected light without A, not an unselected light.
C7_AbsoluteSetsSelectedLights ==
    (SetMultiCalled("absolute") /\ last.arg.attr \in lgt_attrs) =>
        /\ ~last.raised
        /\ \A p \in AttrPlugs :
              attrs[p] = IF p[2] = last.arg.attr /\ p[1] \in SelectedLightShapes(last.sel)
                         THEN last.arg.value
                         ELSE preAttrs[p]

\* the fill light, which has no aiRadius, was selected before the key light,
\* and the key light received the new value
C7_Witness ==
    /\ SetMultiCalled("absolute")
    /\ last.arg.attr = "aiRadius"
    /\ last.sel = <<"fill", "key">>
    /\ last.arg.value = 1
    /\ preAttrs[<<"keyShape", "aiRadius">>] = 0
    /\ attrs[<<"keyShape", "aiRadius">>] = 1
    /\ attrs[<<"rimShape", "aiRadius">>] = 2

\* C8: after setMultiAttributesLights('relative') on a light attribute A with
\* value V, every selected light that has A has A = old A + V, incremented
\* exactly once, and nothing else changes.
C8_RelativeAddsOnce ==
    (SetMultiCalled("relative") /\ last.arg.attr \in lgt_attrs) =>
        \A p \in AttrPlugs :
            attrs[p] = IF p[2] = last.arg.attr /\ p[1] \in SelectedLightShapes(last.sel)
                       THEN preAttrs[p] + last.arg.value
                       ELSE preAttrs[p]

\* C9: with a transform channel chosen, setMultiAttributesLights applies the
\* value to the transform of each selected light; every node that is not a
\* selected light keeps its channel values, and nothing changes when no light
\* is selected.
C9_ChannelsOfSelectedLightsOnly ==
    (last.op = "setMultiAttributesLights" /\ last.arg.attr \in transform_attrs) =>
        \A p \in AttrPlugs :
            attrs[p] = IF /\ p[2] = last.arg.attr
                          /\ p[1] \in {getParent(n) : n \in SelectedLightShapes(last.sel)}
                       THEN IF last.arg.mode = "absolute" THEN last.arg.value
                            ELSE preAttrs[p] + last.arg.value
                       ELSE preAttrs[p]

----------------------------------------------------------------------------
(* Link manager *)

\* list.remove(x): the list without the first occurrence of x
RECURSIVE RemoveFirst(_, _)
RemoveFirst(list, x) ==
    IF list = <<>> THEN <<>>
    ELSE IF Head(list) = x THEN Tail(list)
    ELSE <<Head(list)>> \o RemoveFirst(Tail(list), x)

RECURSIVE ExpandSetsLoopDropsMembers(_, _, _)
\* the loop without 'set_children.extend(...)': sets leave the list, their
\* members are not collected
ExpandSetsLoopDropsMembers(list, i, set_children) ==
    IF i > Len(list) THEN [selected |-> list, set_children |-> set_children]
    ELSE IF nodeType(list[i]) = "objectSet"
    THEN ExpandSetsLoopDropsMembers(RemoveFirst(list, list[i]), i + 1, set_children)
    ELSE ExpandSetsLoopDropsMembers(list, i + 1, set_children)

RECURSIVE ExpandSetsLoop(_, _, _)
\* lines 800-803: 'for node in selected' keeps a position i in the list while
\* the body removes the node from that same list
ExpandSetsLoop(list, i, set_children) ==
    IF i > Len(list) THEN [selected |-> list, set_children |-> set_children]
    ELSE IF nodeType(list[i]) = "objectSet"
    THEN ExpandSetsLoop(RemoveFirst(list, list[i]), i + 1, set_children \o members(list[i]))
    ELSE ExpandSetsLoop(list, i + 1, set_children)

\* lines 798-806: the selection the host command runs on
SelectionForLinking(sel) ==
    LET r == ExpandSetsLoop(sel, 1, <<>>)
    IN  SelectAdd(SelectList(r.selected), r.set_children)

\* the lights and the objects a selection designates for the host linking commands
LinkLights(sel) ==
    {getParent(n) : n \in {x \in Shapes : nodeType(x) \in lgt_types
                                         /\ (x \in Range(sel) \/ getParent(x) \in Range(sel))}}

LinkObjects(sel) ==
    {n \in Range(sel) : nodeType(n) = "objectSet"}
    \cup {getParent(n) : n \in {x \in Shapes : nodeType(x) \notin lgt_types
                                              /\ (x \in Range(sel) \/ getParent(x) \in Range(sel))}}

\* makeLightLinks, lines 795-808
makeLightLinksBody(sel, lk) ==
    LET handed == SelectionForLinking(sel)
        lk1 == lk \cup (LinkLights(handed) \X LinkObjects(handed))
    IN  [links |-> lk1, hostCmd |-> [cmd |-> "MakeLightLinks", sel |-> handed],
         out |-> Outcome("None", FALSE, lk1 # lk)]

\* breakLightLinks, lines 810-823
breakLightLinksBody(sel, lk) ==
    LET handed == SelectionForLinking(sel)
        lk1 == lk \ (LinkLights(handed) \X LinkObjects(handed))
    IN  [links |-> lk1, hostCmd |-> [cmd |-> "BreakLightLinks", sel |-> handed],
         out |-> Outcome("None", FALSE, lk1 # lk)]

\* breakAllLinks, lines 851-859: no guard follows _onlyLightsFromSelection, so
\* 'for light in lights' raises TypeError on None
breakAllLinksBody(sel, lk) ==
    LET found == _onlyLightsFromSelection(sel, FALSE, FALSE)
        lk1 == {pair \in lk : pair[1] \notin Range(found.list)}
    IN  IF found.isNone
        THEN [links |-> lk, out |-> Outcome("None", TRUE, FALSE)]
        ELSE [links |-> lk1, out |-> Outcome("node", FALSE, lk1 # lk)]

\* the three link buttons (lines 211, 212, 214); only _wrapperSelected decorates
\* the first two, nothing decorates the third
makeLightLinks ==
    LET b == makeLightLinksBody(selected, links)
    IN  /\ links' = b.links
        /\ preLinks' = links
        /\ hostCmd' = b.hostCmd
        /\ selected' = RestoreSelection(selected, b.hostCmd.sel)
        /\ last' = Called("makeLightLinks", "", selected, Undecorated(_wrapperSelected(b.out)))
        /\ UNCHANGED <<hierarchyChecked, offLinks>>

breakLightLinks ==
    LET b == breakLightLinksBody(selected, links)
    IN  /\ links' = b.links
        /\ preLinks' = links
        /\ hostCmd' = b.hostCmd
        /\ selected' = RestoreSelection(selected, b.hostCmd.sel)
        /\ last' = Called("breakLightLinks", "", selected, Undecorated(_wrapperSelected(b.out)))
        /\ UNCHANGED <<hierarchyChecked, offLinks>>

breakAllLinks ==
    LET b == breakAllLinksBody(selected, links)
    IN  /\ links' = b.links
        /\ preLinks' = links
        /\ last' = Called("breakAllLinks", "", selected, Undecorated(b.out))
        /\ UNCHANGED <<userVars, hostCmd, offLinks>>

\* the user picks among a light, a mesh and the two sets
LinkSelections == DistinctSeqs({"key", "geo", "setA", "setB"}, MaxSel)

SelectForLinks ==
    /\ \E sel \in LinkSelections : selected' = sel
    /\ last' = NoCall
    /\ hostCmd' = NoHostCmd
    /\ preLinks' = links
    /\ UNCHANGED <<hierarchyChecked, links, offLinks>>

NextLinks ==
    \/ SelectForLinks
    \/ makeLightLinks
    \/ breakLightLinks
    \/ breakAllLinks

SpecLinks == Init /\ [][NextLinks]_vars

----------------------------------------------------------------------------
(* Claims about the link manager and about the callbacks' ends *)

\* C10: makeLightLinks and breakLightLinks run the host command on a selection
\* in which every selected objectSet has been replaced by its members: no
\* objectSet is in it, and the members of every selected set are.
C10_SetsReplacedByMembers ==
    last.op \in {"makeLightLinks", "breakLightLinks"} =>
        /\ \A n \in Range(hostCmd.sel) : nodeType(n) # "objectSet"
        /\ \A n \in Range(last.sel) :
              nodeType(n) = "objectSet" => Range(members(n)) \subseteq Range(hostCmd.sel)

\* two sets were selected side by side; the host command ran on their members
C10_Witness ==
    /\ last.op = "makeLightLinks"
    /\ last.sel = <<"setA", "setB">>
    /\ hostCmd.sel = <<"fill", "rim", "geo">>

\* C5: every scene mutation of a panel callback happens inside an undo chunk
\* opened by that callback.
C5_MutationsInsideUndoChunk ==
    last.mutated => last.chunked

\* the panel operations that act on the selected lights
LightOperations ==
    {"soloLights", "muteLights", "setMultiAttributesLights", "setColorPicked",
     "transfertLightAttrs", "breakAllLinks", "transfertLightLinks", "transfertLightFilters",
     "linkLightFilterToLights", "displayRadius", "displayDecay"}

\* C6: an operation on the selected lights that is invoked while no light is
\* selected ends through its guard: no exception, None returned.
C6_NoLightEndsThroughGuard ==
    (last.op \in LightOperations /\ SelectedLightShapes(last.sel) = {}) =>
        (~last.raised /\ last.ret = "None")

----------------------------------------------------------------------------
(* Link transfer *)

\* the node a link is recorded on: a shape stands for the object it belongs to
LinkedObject(n) == IF n \in Shapes THEN getParent(n) ELSE n

\* pm.lightlink(q=True, light=l), also pm.lightlink(light=l) (with the light
\* flag alone the host assumes a query): the linked sets, transforms and the
\* shapes below them
lightlinkQuery(lk, light) ==
    LET objs == {pair[2] : pair \in {q \in lk : q[1] = light}}
    IN  objs \cup {getShape(o) : o \in {x \in objs : getShape(x) # NoNode}}

\* pm.lightlink(light=l, object=objs, b=True)
lightlinkBreak(lk, light, objs) ==
    lk \ {<<light, LinkedObject(n)>> : n \in objs}

\* pm.lightlink(light=l, object=objs, m=True)
lightlinkMake(lk, light, objs) ==
    lk \cup {<<light, LinkedObject(n)>> : n \in objs}

\* line 879
link_types == {"mesh", "aiStandIn", "pgYetiMaya"}

RECURSIVE TransferLinksLoop(_, _, _)
\* lines 883-886: each slave loses its links and receives the driver's
TransferLinksLoop(lk, slaves, sorted_link) ==
    IF slaves = <<>> THEN lk
    ELSE LET slave == Head(slaves)
             object_linked == lightlinkQuery(lk, slave)
             broken == lightlinkBreak(lk, slave, object_linked)
         IN  TransferLinksLoop(lightlinkMake(broken, slave, sorted_link),
                               Tail(slaves), sorted_link)

\* transfertLightLinks, lines 862-890
transfertLightLinksBody(sel, lk) ==
    LET found == _onlyLightsFromSelection(sel, FALSE, FALSE)
        lights == found.list
        driver == lights[1]
        slaves == Tail(lights)
        sorted_link == {n \in lightlinkQuery(lk, driver) : nodeType(n) \in link_types}
        lk1 == TransferLinksLoop(lk, slaves, sorted_link)
    IN  IF found.isNone \/ Len(lights) < 2
        THEN [links |-> lk, selected |-> sel, out |-> Outcome("None", FALSE, FALSE)]
        ELSE [links |-> lk1, selected |-> SelectList(slaves),
              out |-> Outcome("True", FALSE, TRUE)]

transfertLightLinks ==
    LET b == transfertLightLinksBody(selected, links)
    IN  /\ links' = b.links
        /\ preLinks' = links
        /\ selected' = b.selected
        /\ last' = Called("transfertLightLinks", "", selected, _wrapperUndoChunck(b.out))
        /\ UNCHANGED <<hierarchyChecked, hostCmd, offLinks>>

\* the scenes the transfer starts from: the key and fill lights linked to any
\* of the mesh and the set
TransferLinkScenes ==
    {lk \cup ({"rim"} \X {"geo"}) : lk \in SUBSET ({"key", "fill"} \X {"geo", "setA"})}

TransferSelections == DistinctSeqs({"key", "keyShape", "fill", "geo"}, MaxSel)

SelectForTransfer ==
    /\ \E sel \in TransferSelections : selected' = sel
    /\ last' = NoCall
    /\ preLinks' = links
    /\ UNCHANGED <<hierarchyChecked, links, hostCmd, offLinks>>

InitLinkTransfer ==
    /\ selected = <<>>
    /\ hierarchyChecked = FALSE
    /\ layers = [n \in LayerNames |-> NoLayer]
    /\ layerConflict = FALSE
    /\ aiFilters = NoFilters
    /\ filters = DefaultFilters
    /\ preFilters = [aiFilters |-> NoFilters, filters |-> DefaultFilters]
    /\ attrs = DefaultAttrs
    /\ preAttrs = DefaultAttrs
    /\ links \in TransferLinkScenes
    /\ preLinks = links
    /\ hostCmd = NoHostCmd
    /\ helpers = NoHelpers
    /\ returned = NoValue
    /\ optimizer = DefaultOptimizer
    /\ css = DefaultStyles
    /\ look = DefaultLook
    /\ scan = Idle
    /\ last = NoCall

NextLinkTransfer ==
    \/ SelectForTransfer
    \/ transfertLightLinks

SpecLinkTransfer == InitLinkTransfer /\ [][NextLinkTransfer]_vars

\* the objects a light is linked to
LinkedTo(lk, light) == {pair[2] : pair \in {q \in lk : q[1] = light}}

\* C11: after transfertLightLinks with at least two lights selected, every
\* light after the first is linked to exactly the mesh, aiStandIn and
\* pgYetiMaya objects the first one was linked to, the first light's links and
\* those of the unselected lights are unchanged; with fewer than two lights
\* selected no link changes.
C11_LinksCopiedFromFirst ==
    last.op = "transfertLightLinks" =>
        LET shapes == SelectedLightShapes(last.sel)
            first  == getParent(LightShapesOf(last.sel)[1])
            others == {getParent(n) : n \in shapes} \ {first}
        IN  IF Cardinality(shapes) < 2
            THEN links = preLinks
            ELSE /\ LinkedTo(links, first) = LinkedTo(preLinks, first)
                 /\ \A l \in others :
                       LinkedTo(links, l) =
                           {o \in LinkedTo(preLinks, first) :
                               getShape(o) # NoNode /\ nodeType(getShape(o)) \in link_types}
                 /\ \A l \in _getAllLights \ (others \cup {first}) :
                       LinkedTo(links, l) = LinkedTo(preLinks, l)

----------------------------------------------------------------------------
(* Filter transfer *)

\* pm.connectionInfo("light.aiFilters[i]", sfd=True): the filter plugged at
\* index i, nothing beyond the plugs in use
PluggedAt(arr, i) == IF i \in DOMAIN arr THEN arr[i] ELSE NoNode

RECURSIVE ConnectedRun(_, _)
\* the while loops of lines 912-915 and 926-930: count upwards from index i
\* until an index without incoming connection is met
ConnectedRun(arr, i) ==
    IF PluggedAt(arr, i) = NoNode THEN i ELSE ConnectedRun(arr, i + 1)

\* lines 923-934 for one slave: unplug its leading run of filters, then plug
\* the driver's filters at the driver's indices ('>>' replaces what is there)
TransferFiltersToSlave(slave_arr, driver_arr, lenght) ==
    LET run == ConnectedRun(slave_arr, 0)
    IN  [i \in Plugs |->
            IF i < lenght THEN driver_arr[i]
            ELSE IF i < run THEN NoNode
            ELSE slave_arr[i]]

RECURSIVE TransferFiltersLoop(_, _, _, _)
TransferFiltersLoop(af, slaves, driver_arr, lenght) ==
    IF slaves = <<>> THEN af
    ELSE TransferFiltersLoop(
             [af EXCEPT ![Head(slaves)] = TransferFiltersToSlave(@, driver_arr, lenght)],
             Tail(slaves), driver_arr, lenght)

\* transfertLightFilters, lines 897-938
transfertLightFiltersBody(sel, af) ==
    LET found  == _onlyLightsFromSelection(sel, TRUE, FALSE)
        driver == found.list[1]
        slaves == Tail(found.list)
        lenght == ConnectedRun(af[driver], 0)          \* len(driver_connection)
        af1    == TransferFiltersLoop(af, slaves, af[driver], lenght)
    IN  IF found.isNone
        THEN [aiFilters |-> af, selected |-> sel, out |-> Outcome("None", FALSE, FALSE)]
        ELSE IF lenght = 0
        THEN [aiFilters |-> af, selected |-> sel, out |-> Outcome("None", FALSE, FALSE)]
        ELSE [aiFilters |-> af1, selected |-> SelectList(slaves),
              out |-> Outcome("dict", FALSE, slaves # <<>>)]

transfertLightFilters ==
    LET b == transfertLightFiltersBody(selected, aiFilters)
    IN  /\ aiFilters' = b.aiFilters
        /\ preFilters' = [aiFilters |-> aiFilters, filters |-> filters]
        /\ selected' = b.selected
        /\ last' = Called("transfertLightFilters", "", selected, _wrapperUndoChunck(b.out))
        /\ UNCHANGED <<hierarchyChecked, filters, offFilters>>

\* the user picks among the two lights that carry filters and a mesh
FilterLightSelections == DistinctSeqs({"key", "fill", "geo"}, MaxSel)

SelectForFilters ==
    /\ \E sel \in FilterLightSelections : selected' = sel
    /\ last' = NoCall
    /\ preFilters' = [aiFilters |-> aiFilters, filters |-> filters]
    /\ UNCHANGED <<hierarchyChecked, aiFilters, filters, offFilters>>

InitFilterTransfer ==
    /\ selected = <<>>
    /\ hierarchyChecked = FALSE
    /\ layers = [n \in LayerNames |-> NoLayer]
    /\ layerConflict = FALSE
    /\ aiFilters \in FilterScenes
    /\ filters = DefaultFilters
    /\ preFilters = [aiFilters |-> aiFilters, filters |-> filters]
    /\ attrs = DefaultAttrs
    /\ preAttrs = DefaultAttrs
    /\ links = DefaultLinks
    /\ preLinks = DefaultLinks
    /\ hostCmd = NoHostCmd
    /\ helpers = NoHelpers
    /\ returned = NoValue
    /\ optimizer = DefaultOptimizer
    /\ css = DefaultStyles
    /\ look = DefaultLook
    /\ scan = Idle
    /\ last = NoCall

NextFilterTransfer ==
    \/ SelectForFilters
    \/ transfertLightFilters

SpecFilterTransfer == InitFilterTransfer /\ [][NextFilterTransfer]_vars

\* C12: after transfertLightFilters from a first light that carries filters,
\* every other selected light has exactly the first light's filters at the
\* first light's indices and no other filter, whatever the arrangement of the
\* arrays before the call.
C12_SlavesMirrorDriver ==
    (last.op = "transfertLightFilters" /\ SelectedLightShapes(last.sel) # {}) =>
        LET driver == LightShapesOf(last.sel)[1]
        IN  ConnectedPlugs(preFilters.aiFilters[driver]) # {} =>
                \A slave \in SelectedLightShapes(last.sel) \ {driver} :
                    aiFilters[slave] = preFilters.aiFilters[driver]

----------------------------------------------------------------------------
(* Linking a filter to the selected lights *)

\* a light blocker is a shape under a transform of its own; a decay has none
FilterTransforms == {"blockerATransform", "blockerBTransform"}

FilterShapeOf(t) ==
    CASE t = "blockerATransform" -> "blockerA"
      [] t = "blockerBTransform" -> "blockerB"
      [] OTHER                   -> NoNode

\* pm.nodeType and getShape over the nodes the artist can pick here
PickedType(n) ==
    IF n \in FilterNodes THEN filterType(n)
    ELSE IF n \in FilterTransforms THEN "transform"
    ELSE nodeType(n)

PickedShape(n) == IF n \in FilterTransforms THEN FilterShapeOf(n) ELSE getShape(n)

RECURSIVE SortPicked(_, _, _, _)
\* lines 953-968: the selection split into light shapes and filters of the
\* wanted type; getShape() of a group is None and None.name() raises
SortPicked(sel, filter_, lights_selected, filter_selected) ==
    IF sel = <<>>
    THEN [raised |-> FALSE, lights |-> lights_selected, filters |-> filter_selected]
    ELSE LET n     == Head(sel)
             shape == IF PickedType(n) = "transform" THEN PickedShape(n) ELSE n
         IN  IF shape = NoNode
             THEN [raised |-> TRUE, lights |-> lights_selected, filters |-> filter_selected]
             ELSE IF PickedType(shape) \in lgt_types
             THEN SortPicked(Tail(sel), filter_, Append(lights_selected, shape), filter_selected)
             ELSE IF PickedType(shape) = filter_
             THEN SortPicked(Tail(sel), filter_, lights_selected, Append(filter_selected, shape))
             ELSE SortPicked(Tail(sel), filter_, lights_selected, filter_selected)

RECURSIVE PlugIntoLights(_, _, _)
\* lines 986-997 for one filter: each light that does not have it among its
\* inputs receives it at the first index found unconnected from 0 upwards
PlugIntoLights(af, filtr, lgts) ==
    IF lgts = <<>> THEN [aiFilters |-> af, overflow |-> FALSE]
    ELSE LET lgt == Head(lgts)
             i   == ConnectedRun(af[lgt], 0)
         IN  IF filtr \in Range(af[lgt])
             THEN PlugIntoLights(af, filtr, Tail(lgts))
             ELSE IF i \notin Plugs
             THEN [aiFilters |-> af, overflow |-> TRUE]
             ELSE PlugIntoLights([af EXCEPT ![lgt][i] = filtr], filtr, Tail(lgts))

RECURSIVE PlugFilters(_, _, _)
\* lines 980-997: every filter in turn
PlugFilters(af, filtrs, lgts) ==
    IF filtrs = <<>> THEN [aiFilters |-> af, overflow |-> FALSE]
    ELSE LET r == PlugIntoLights(af, Head(filtrs), lgts)
         IN  IF r.overflow THEN r ELSE PlugFilters(r.aiFilters, Tail(filtrs), lgts)

\* the filter nodes pm.createNode(filter_) can still bring into the scene
FreshFilters(filter_, fs) == {f \in FilterNodes : ~fs[f].exists /\ filterType(f) = filter_}

\* linkLightFilterToLights, lines 941-1001; fresh is the node createNode makes
linkLightFilterToLightsBody(filter_, sel, af, fs, fresh) ==
    LET sorted  == SortPicked(sel, filter_, <<>>, <<>>)
        create  == sorted.filters = <<>>                         \* line 976
        filtrs  == IF create THEN <<fresh>> ELSE sorted.filters
        fs1     == IF create THEN [fs EXCEPT ![fresh] = DefaultFilters[fresh]] ELSE fs
        plugged == PlugFilters(af, filtrs, sorted.lights)
    IN  IF filter_ \notin {"aiLightDecay", "aiLightBlocker", "aiGobo"}
        THEN [aiFilters |-> af, filters |-> fs, needsFresh |-> FALSE, overflow |-> FALSE,
              out |-> Outcome("None", FALSE, FALSE)]
        ELSE IF sorted.raised
        THEN [aiFilters |-> af, filters |-> fs, needsFresh |-> FALSE, overflow |-> FALSE,
              out |-> Outcome("None", TRUE, FALSE)]
        ELSE IF sorted.lights = <<>>
        THEN [aiFilters |-> af, filters |-> fs, needsFresh |-> FALSE, overflow |-> FALSE,
              out |-> Outcome("None", FALSE, FALSE)]
        ELSE [aiFilters |-> plugged.aiFilters, filters |-> fs1, needsFresh |-> create,
              overflow |-> plugged.overflow,
              out |-> Outcome("list", FALSE, create \/ plugged.aiFilters # af)]

\* the multiBlocker and multiDecay buttons (lines 219-220).  The call is left
\* out when it would need a filter node or a plug beyond those modelled.
linkLightFilterToLights(filter_) ==
    \E fresh \in FilterNodes :
        LET pool == FreshFilters(filter_, filters)
            b == linkLightFilterToLightsBody(filter_, selected, aiFilters, filters, fresh)
        IN  /\ IF pool = {} THEN fresh = CHOOSE f \in FilterNodes : TRUE
               ELSE fresh = CHOOSE f \in pool : TRUE
            /\ b.needsFresh => pool # {}
            /\ ~b.overflow
            /\ aiFilters' = b.aiFilters
            /\ filters' = b.filters
            /\ preFilters' = [aiFilters |-> aiFilters, filters |-> filters]
            /\ last' = Called("linkLightFilterToLights", filter_, selected,
                              _wrapperUndoChunck(b.out))
            /\ UNCHANGED <<userVars, offFilters>>

multiBlocker == linkLightFilterToLights("aiLightBlocker")
multiDecay   == linkLightFilterToLights("aiLightDecay")

\* the user picks among two lights, a group and a blocker, by its shape or by
\* its transform
FilterLinkSelections ==
    DistinctSeqs({"key", "fill", "grp", "blockerA", "blockerATransform"}, MaxSel)

SelectForFilterLink ==
    /\ \E sel \in FilterLinkSelections : selected' = sel
    /\ last' = NoCall
    /\ preFilters' = [aiFilters |-> aiFilters, filters |-> filters]
    /\ UNCHANGED <<hierarchyChecked, aiFilters, filters, offFilters>>

\* the scenes the linking starts from: blockerA exists and may be plugged
\* anywhere, blockerB and decayA are still to be created
FilterLinkScenes ==
    {af \in FilterScenes : \A l \in FilterLights : Range(af[l]) \subseteq {"blockerA", NoNode}}

InitFilterLink ==
    /\ selected = <<>>
    /\ hierarchyChecked = FALSE
    /\ layers = [n \in LayerNames |-> NoLayer]
    /\ layerConflict = FALSE
    /\ aiFilters \in FilterLinkScenes
    /\ filters = [DefaultFilters EXCEPT !["blockerB"].exists = FALSE, !["decayA"].exists = FALSE]
    /\ preFilters = [aiFilters |-> aiFilters, filters |-> filters]
    /\ attrs = DefaultAttrs
    /\ preAttrs = DefaultAttrs
    /\ links = DefaultLinks
    /\ preLinks = DefaultLinks
    /\ hostCmd = NoHostCmd
    /\ helpers = NoHelpers
    /\ returned = NoValue
    /\ optimizer = DefaultOptimizer
    /\ css = DefaultStyles
    /\ look = DefaultLook
    /\ scan = Idle
    /\ last = NoCall

NextFilterLink ==
    \/ SelectForFilterLink
    \/ multiBlocker
    \/ multiDecay

SpecFilterLink == InitFilterLink /\ [][NextFilterLink]_vars

\* the lights and the filters of one type a selection designates
PickedLights(sel) == SelectedLightShapes(sel) \cap FilterLights

PickedFilters(filter_, sel) ==
    {f \in FilterNodes :
        /\ filterType(f) = filter_
        /\ \/ f \in Range(sel)
           \/ \E t \in Range(sel) \cap FilterTransforms : FilterShapeOf(t) = f}

\* the k lowest unconnected indices of an array
LowestFree(arr, k) ==
    {i \in Plugs : /\ arr[i] = NoNode
                   /\ Cardinality({j \in Plugs : j < i /\ arr[j] = NoNode}) < k}

\* C13: linkLightFilterToLights(type) plugs each selected filter of the type
\* into each selected light at the lowest unconnected index, plugs no filter
\* into a light that already has it, leaves the existing connections at their
\* indices, and creates exactly one filter node when lights are selected and
\* no filter of the type is, none otherwise.
C13_FiltersPluggedOnce ==
    last.op = "linkLightFilterToLights" =>
        LET L       == PickedLights(last.sel)
            F       == PickedFilters(last.arg, last.sel)
            pre     == preFilters.aiFilters
            created == {f \in FilterNodes : ~preFilters.filters[f].exists /\ filters[f].exists}
            G       == IF F = {} THEN created ELSE F
        IN  /\ Cardinality(created) = IF L # {} /\ F = {} THEN 1 ELSE 0
            /\ \A f \in created : filterType(f) = last.arg
            /\ \A l \in FilterLights :
                  IF l \in L
                  THEN LET new   == G \ Range(pre[l])
                           slots == LowestFree(pre[l], Cardinality(new))
                       IN  /\ \A i \in Plugs :
                                 IF i \in slots THEN aiFilters[l][i] \in new
                                 ELSE aiFilters[l][i] = pre[l][i]
                           /\ \A f \in new :
                                 Cardinality({i \in Plugs : aiFilters[l][i] = f}) = 1
                  ELSE aiFilters[l] = pre[l]

----------------------------------------------------------------------------
(* Display helpers: decay *)

MaxCopies == 2     \* most display meshes kept for one light, group and part
MaxSdeg   == 3     \* most shading groups kept under one name

\* _eitherCreateGetNode("grp", name), lines 2123-2142
_eitherCreateGetNode(h, name) == [h EXCEPT !.groups = @ \cup {name}]

\* lines 1340-1359 (also 1019-1027, 1203-1211): a lambert and its shading group
\* are made when no node has the shader's name; the shading group's name may
\* be taken already, the host then numbers the new one
CreateShader(h, shad, sdeg) ==
    IF shad \in h.shaders THEN h
    ELSE [h EXCEPT !.shaders = @ \cup {shad}, !.sdeg[sdeg] = @ + 1]

\* light.getShape().inputs(type="aiLightDecay")[0]: the first decay plugged
DecayOf(af, shape) ==
    LET idx == IF shape \in FilterLights
               THEN {i \in Plugs : filterType(af[shape][i]) = "aiLightDecay"}
               ELSE {}
    IN  IF idx = {} THEN NoNode
        ELSE af[shape][CHOOSE i \in idx : \A j \in idx : i <= j]

\* plug.inputs(type="expression") is not empty
DrivenByExpression(h, plug) == \E e \in h.expressions : e.drives = plug

NextCopy(h, grp, of, part) ==
    1 + Cardinality({m \in h.meshes : m.grp = grp /\ m.of = of /\ m.part = part})

\* what tells one display mesh from another
MeshId(m) == [grp |-> m.grp, of |-> m.of, part |-> m.part, copy |-> m.copy]

NoMesh == [grp |-> "", of |-> "", part |-> "", copy |-> 0]

\* the plug an expression drives: an attribute of a scene node, or a scale
\* axis of a display mesh
NodePlug(node, attr) == [mesh |-> NoMesh, node |-> node, attr |-> attr]
MeshPlug(mesh, axis) == [mesh |-> MeshId(mesh), node |-> "", attr |-> axis]

\* decay_type + startEnd, line 1381
DecayAttr(decay_type, part) ==
    CASE decay_type = "near" /\ part = "Start" -> "nearStart"
      [] decay_type = "near" /\ part = "End"   -> "nearEnd"
      [] decay_type = "far"  /\ part = "Start" -> "farStart"
      [] OTHER                                 -> "farEnd"

RECURSIVE AddExpressions(_, _, _)
\* pm.expression for each of the list; an expression on a plug that another
\* one drives already is refused by the host unless hostAccepts
AddExpressions(h, exprs, hostAccepts) ==
    IF exprs = <<>> THEN [helpers |-> h, raised |-> FALSE]
    ELSE IF DrivenByExpression(h, Head(exprs).drives) /\ ~hostAccepts
    THEN [helpers |-> h, raised |-> TRUE]
    ELSE AddExpressions(
             [h EXCEPT !.expressions = @ \cup
                 {[Head(exprs) EXCEPT !.copy =
                      1 + Cardinality({e \in h.expressions :
                                          [e EXCEPT !.copy = 0] = Head(exprs)})]}],
             Tail(exprs), hostAccepts)

\* lines 1380-1497 for one of "Start", "End": the mesh with its local-space
\* group under the decay group, then the expressions the light type calls for
DecayPart(h, light, decay, decay_type, grp, part, hostAccepts) ==
    LET copy == NextCopy(h, grp, light, part)
        mesh == [grp |-> grp, of |-> light, part |-> part, copy |-> copy,
                 scale |-> <<1, 1, 1>>]
        h1   == [h EXCEPT !.meshes = @ \cup {mesh}]
        expr(kind, plug) == [feature |-> "displayDecay", of |-> light, part |-> part,
                             kind |-> kind, copy |-> 0, drives |-> plug]
        decay_plug == NodePlug(decay, DecayAttr(decay_type, part))
        mesh_plug(axis) == MeshPlug(mesh, axis)
        type == nodeType(getShape(light))
        exprs == IF type = "spotLight"
                 THEN <<expr("decayTranslateZ", decay_plug)>>
                 ELSE IF type = "pointLight"
                 THEN <<expr("decayScaleZ", decay_plug),
                        expr("decayScaleX", mesh_plug("scaleX")),
                        expr("decayScaleY", mesh_plug("scaleY"))>>
                 ELSE <<expr("decayTranslateZ", decay_plug),
                        expr("decayTranslateZ", decay_plug)>>
        r == AddExpressions(h1, exprs, hostAccepts)
    IN  [helpers |-> r.helpers, raised |-> r.raised, overflow |-> copy > MaxCopies]

RECURSIVE DecayLoop(_, _, _, _, _, _, _)
\* lines 1364-1503: one light after the other
DecayLoop(h, fs, af, lights, decay_type, grp, hostAccepts) ==
    IF lights = <<>>
    THEN [helpers |-> h, filters |-> fs, raised |-> FALSE, overflow |-> FALSE, made |-> FALSE]
    ELSE LET light == Head(lights)
             decay == DecayOf(af, getShape(light))
             start == DecayPart(h, light, decay, decay_type, grp, "Start", hostAccepts)
             end   == DecayPart(start.helpers, light, decay, decay_type, grp, "End", hostAccepts)
             use_decay == IF decay_type = "near" THEN "useNearAtten" ELSE "useFarAtten"
             fs1   == IF decay_type = "near" THEN [fs EXCEPT ![decay].useNearAtten = TRUE]
                      ELSE [fs EXCEPT ![decay].useFarAtten = TRUE]
             rest  == DecayLoop(end.helpers, fs1, af, Tail(lights), decay_type, grp, hostAccepts)
         IN  IF decay = NoNode                          \* line 1369: self.log does not exist
             THEN [helpers |-> h, filters |-> fs, raised |-> TRUE, overflow |-> FALSE,
                   made |-> FALSE]
             ELSE IF DrivenByExpression(h, NodePlug(decay, DecayAttr(decay_type, "End")))     \* line 1376
             THEN DecayLoop(h, fs, af, Tail(lights), decay_type, grp, hostAccepts)
             ELSE IF start.raised \/ start.overflow
             THEN [helpers |-> start.helpers, filters |-> fs, raised |-> start.raised,
                   overflow |-> start.overflow, made |-> TRUE]
             ELSE IF end.raised \/ end.overflow
             THEN [helpers |-> end.helpers, filters |-> fs, raised |-> end.raised,
                   overflow |-> end.overflow, made |-> TRUE]
             ELSE [rest EXCEPT !.made = TRUE]

\* __displayDecayCSS, lines 1557-1567
displayDecayCSS(c, h) ==
    [c EXCEPT !["displayNearDecay"] = StyleFor(display_decay_near_grp \in h.groups),
              !["displayFarDecay"]  = StyleFor(display_decay_far_grp \in h.groups)]

\* __displayRadiusCSS, lines 1164-1169
displayRadiusCSS(c, h) ==
    [c EXCEPT !["displayRadius"] = StyleFor(display_radius_grp \in h.groups)]

\* __displayBlockerCSS, lines 1310-1315
displayBlockerCSS(c, h) ==
    [c EXCEPT !["displayBlocker"] = StyleFor(display_blocker_grp \in h.groups)]

\* displayDecay, lines 1317-1520
displayDecayBody(decay_type, sel, h, fs, af, hostAccepts) ==
    LET found == _onlyLightsFromSelection(sel, FALSE, FALSE)
        grp == IF decay_type = "near" THEN display_decay_near_grp ELSE display_decay_far_grp
        h1  == _eitherCreateGetNode(_eitherCreateGetNode(h, mtoa_utils_grp), grp)
        h2  == CreateShader(CreateShader(h1, "displayDecayStart_SHAD", "displayDecayStart_SDEG"),
                            "displayDecayEnd_SHAD", "displayDecayEnd_SDEG")
        r   == DecayLoop(h2, fs, af, found.list, decay_type, grp, hostAccepts)
    IN  IF found.isNone
        THEN [helpers |-> h, filters |-> fs, selected |-> sel, overflow |-> FALSE,
              out |-> Outcome("None", FALSE, FALSE)]
        ELSE [helpers |-> r.helpers, filters |-> r.filters,
              selected |-> IF r.made THEN <<HelperMesh>> ELSE sel,
              overflow |-> r.overflow \/ \E n \in SdegNames : h2.sdeg[n] > MaxSdeg,
              out |-> Outcome(IF r.raised THEN "None" ELSE "list", r.raised, TRUE)]

\* the near and far buttons (lines 226-227).  The call is left out when it
\* would go beyond the copies modelled.
displayDecay(decay_type) ==
    \E hostAccepts \in BOOLEAN :
        LET b == displayDecayBody(decay_type, selected, helpers, filters, aiFilters, hostAccepts)
        IN  /\ ~b.overflow
            /\ helpers' = b.helpers
            /\ filters' = b.filters
            /\ selected' = b.selected
            /\ css' = IF b.out.ret = "list" THEN displayDecayCSS(css, b.helpers) ELSE css
            /\ last' = Called("displayDecay", decay_type, selected, _wrapperUndoChunck(b.out))
            /\ UNCHANGED <<panelVars, hierarchyChecked, aiFilters, preFilters, returned, optimizer,
                           layerVars, attrVars, linkVars>>

displayNearDecay == displayDecay("near")
displayFarDecay  == displayDecay("far")

\* pm.delete(group): the group goes with the display meshes below it
DeleteGroup(h, grp) ==
    [h EXCEPT !.groups = @ \ {grp}, !.meshes = {m \in @ : m.grp # grp}]

\* 'Delete light Utils if empty' (lines 1535-1537, 1149-1151, 1296-1298): the
\* display groups are the children of the utility group
DeleteUtilsIfEmpty(h) ==
    IF mtoa_utils_grp \in h.groups /\ h.groups \subseteq {mtoa_utils_grp}
    THEN [h EXCEPT !.groups = {}] ELSE h

\* 'if pm.objExists(name): pm.delete(name)' for a shading group
DeleteSdeg(h, name) == IF h.sdeg[name] > 0 THEN [h EXCEPT !.sdeg[name] = @ - 1] ELSE h

\* deleteDisplayDecay, lines 1522-1555
deleteDisplayDecayBody(h) ==
    LET h1 == [h EXCEPT !.expressions = {e \in @ : e.feature # "displayDecay"}]
        h2 == DeleteGroup(DeleteGroup(h1, display_decay_far_grp), display_decay_near_grp)
        h3 == DeleteUtilsIfEmpty(h2)
        h4 == [h3 EXCEPT !.shaders = @ \ {"displayDecayStart_SHAD", "displayDecayEnd_SHAD"}]
        h5 == DeleteSdeg(DeleteSdeg(h4, "startDisplayDecay_SDEG"), "endDisplayDecay_SDEG")
    IN  [helpers |-> h5, out |-> Outcome("None", FALSE, h5 # h)]

deleteDisplayDecay ==
    LET b == deleteDisplayDecayBody(helpers)
    IN  /\ helpers' = b.helpers
        /\ css' = displayDecayCSS(css, b.helpers)
        /\ last' = Called("deleteDisplayDecay", "", selected, Undecorated(b.out))
        /\ UNCHANGED <<panelVars, userVars, returned, optimizer, layerVars, filterVars, attrVars, linkVars>>

\* the user picks among the two lights that carry filters
DecaySelections == DistinctSeqs({"key", "fill"}, MaxSel)

SelectForDecay ==
    /\ \E sel \in DecaySelections : selected' = sel
    /\ last' = NoCall
    /\ UNCHANGED <<panelVars, css, hierarchyChecked, helperVars, layerVars, filterVars, attrVars, linkVars>>

\* the key light has a decay; the fill light has the same decay or none
DecayScenes ==
    {[NoFilters EXCEPT !["keyShape"][0] = "decayA", !["fillShape"][0] = f] :
        f \in {"decayA", NoNode}}

InitDecay ==
    /\ selected = <<>>
    /\ hierarchyChecked = FALSE
    /\ layers = [n \in LayerNames |-> NoLayer]
    /\ layerConflict = FALSE
    /\ aiFilters \in DecayScenes
    /\ filters = DefaultFilters
    /\ preFilters = [aiFilters |-> aiFilters, filters |-> filters]
    /\ attrs = DefaultAttrs
    /\ preAttrs = DefaultAttrs
    /\ links = DefaultLinks
    /\ preLinks = DefaultLinks
    /\ hostCmd = NoHostCmd
    /\ helpers = NoHelpers
    /\ returned = NoValue
    /\ optimizer = DefaultOptimizer
    /\ css = DefaultStyles
    /\ look = DefaultLook
    /\ scan = Idle
    /\ last = NoCall

NextDecay ==
    \/ SelectForDecay
    \/ displayNearDecay
    \/ displayFarDecay
    \/ deleteDisplayDecay

SpecDecay == InitDecay /\ [][NextDecay]_vars

\* C14: after displayDecay followed by deleteDisplayDecay no node made by
\* displayDecay is left: no group, no display mesh, no expression, neither
\* lambert shader and neither of their shading groups.
C14_DecayHelpersAllDeleted ==
    last.op = "deleteDisplayDecay" =>
        /\ helpers.groups = {}
        /\ helpers.meshes = {}
        /\ helpers.expressions = {}
        /\ helpers.shaders = {}
        /\ \A n \in SdegNames : helpers.sdeg[n] = 0

----------------------------------------------------------------------------
(* Display helpers: radius and blocker *)

\* the plug "light.aiRadius": the host finds a shape's attribute through the
\* transform
RadiusPlug(light) == <<getShape(light), "aiRadius">>

\* the expressions of the Z axis alone
RadiusExpressionsOnlyZ(light, mesh) ==
    <<[feature |-> "displayRadius", of |-> light, part |-> "", kind |-> "radiusScaleZ",
       copy |-> 0, drives |-> MeshPlug(mesh, "scaleZ")]>>

\* lines 1104-1114: one expression per axis, each 'mesh.scaleA = light.aiRadius'
RadiusExpressions(light, mesh) ==
    LET expr(kind, axis) == [feature |-> "displayRadius", of |-> light, part |-> "",
                             kind |-> kind, copy |-> 0, drives |-> MeshPlug(mesh, axis)]
    IN  <<expr("radiusScaleZ", "scaleZ"), expr("radiusScaleX", "scaleX"),
          expr("radiusScaleY", "scaleY")>>

Axes == <<"scaleX", "scaleY", "scaleZ">>

\* the host evaluating the radius expressions: a driven scale axis takes the
\* value of the light's aiRadius
Evaluate(h, at) ==
    LET value(m, a) ==
            IF \E e \in h.expressions :
                   e.feature = "displayRadius" /\ e.drives = MeshPlug(m, Axes[a])
            THEN at[RadiusPlug(m.of)]
            ELSE m.scale[a]
    IN  [h EXCEPT !.meshes =
            {[m EXCEPT !.scale = <<value(m, 1), value(m, 2), value(m, 3)>>] : m \in h.meshes}]

RECURSIVE RadiusLoop(_, _, _)
\* lines 1032-1128: one light after the other
RadiusLoop(h, at, lights) ==
    IF lights = <<>> THEN [helpers |-> h, overflow |-> FALSE, out |-> <<>>]
    ELSE LET light == Head(lights)
             copy  == NextCopy(h, display_radius_grp, light, "")
             mesh  == [grp |-> display_radius_grp, of |-> light, part |-> "", copy |-> copy,
                       scale |-> <<1, 1, at[RadiusPlug(light)]>>]          \* line 1103
             h1    == [h EXCEPT !.meshes = @ \cup {mesh}]
             r     == AddExpressions(h1, RadiusExpressions(light, mesh), FALSE)
             rest  == RadiusLoop(Evaluate(r.helpers, at), at, Tail(lights))
         IN  IF RadiusPlug(light) \notin AttrPlugs                          \* line 1035
             THEN RadiusLoop(h, at, Tail(lights))
             ELSE IF DrivenByExpression(h, NodePlug(getShape(light), "aiRadius"))  \* line 1039
             THEN RadiusLoop(h, at, Tail(lights))
             ELSE IF copy > MaxCopies
             THEN [helpers |-> h, overflow |-> TRUE, out |-> <<>>]
             ELSE [rest EXCEPT !.out = <<light>> \o @]

\* displayRadius, lines 1005-1136.  The body selects each display mesh and ends
\* with pm.select(save_selected).
displayRadiusBody(sel, h, at) ==
    LET found == _onlyLightsFromSelection(sel, FALSE, FALSE)
        h1 == _eitherCreateGetNode(_eitherCreateGetNode(h, mtoa_utils_grp), display_radius_grp)
        h2 == CreateShader(h1, "displayRadius_SHAD", "displayRadius_SDEG")
        r  == RadiusLoop(h2, at, found.list)
    IN  IF found.isNone
        THEN [helpers |-> h, selected |-> sel, overflow |-> FALSE,
              out |-> Outcome("None", FALSE, FALSE)]
        ELSE [helpers |-> r.helpers, selected |-> sel,
              overflow |-> r.overflow \/ h2.sdeg["displayRadius_SDEG"] > MaxSdeg,
              out |-> Outcome("list", FALSE, TRUE)]

displayRadius ==
    LET b == displayRadiusBody(selected, helpers, attrs)
    IN  /\ ~b.overflow
        /\ helpers' = b.helpers
        /\ selected' = RestoreSelection(selected, b.selected)
        /\ css' = IF b.out.ret = "list" THEN displayRadiusCSS(css, b.helpers) ELSE css
        /\ last' = Called("displayRadius", "", selected,
                          _wrapperUndoChunck(_wrapperSelected(b.out)))
        /\ UNCHANGED <<panelVars, hierarchyChecked, returned, optimizer, layerVars, filterVars, attrVars, linkVars>>

\* deleteDisplayRadius deleting the utility group without a look at its children
deleteDisplayRadiusDropsUtils(h) ==
    LET h1 == [h EXCEPT !.expressions = {e \in @ : e.feature # "displayRadius"}]
        h2 == [DeleteGroup(h1, display_radius_grp) EXCEPT !.groups = {}, !.meshes = {}]
        h3 == [h2 EXCEPT !.shaders = @ \ {"displayRadius_SHAD"}]
        h4 == DeleteSdeg(h3, "displayRadius_SDEG")
    IN  [helpers |-> h4, out |-> Outcome("True", FALSE, h4 # h)]

\* deleteDisplayRadius, lines 1138-1162
deleteDisplayRadiusBody(h) ==
    LET h1 == [h EXCEPT !.expressions = {e \in @ : e.feature # "displayRadius"}]
        h2 == DeleteUtilsIfEmpty(DeleteGroup(h1, display_radius_grp))
        h3 == [h2 EXCEPT !.shaders = @ \ {"displayRadius_SHAD"}]
        h4 == DeleteSdeg(h3, "displayRadius_SDEG")
    IN  [helpers |-> h4, out |-> Outcome("True", FALSE, h4 # h)]

deleteDisplayRadius ==
    LET b == deleteDisplayRadiusBody(helpers)
    IN  /\ helpers' = b.helpers
        /\ css' = displayRadiusCSS(css, b.helpers)
        /\ last' = Called("deleteDisplayRadius", "", selected, _wrapperUndoChunck(b.out))
        /\ UNCHANGED <<panelVars, userVars, returned, optimizer, layerVars, filterVars, attrVars, linkVars>>

\* the names bound in displayBlocker when its first loop starts (lines
\* 1173-1178): no statement of the function assigns save_selected
displayBlockerLocals == {"self", "blockers"}

\* lines 1177-1187 on a list of selected nodes: the transforms of the blockers
SelectedBlockers(nodes) ==
    LET blockerOf == [n \in Range(nodes) |->
                         IF n \in FilterTransforms /\ filterType(FilterShapeOf(n)) = "aiLightBlocker"
                         THEN n
                         ELSE IF n \in FilterNodes /\ filterType(n) = "aiLightBlocker"
                         THEN CHOOSE t \in FilterTransforms : FilterShapeOf(t) = n
                         ELSE NoNode]
    IN  SeqFilter(SeqMap(nodes, blockerOf), FilterTransforms)

RECURSIVE BlockerLoop(_, _)
\* lines 1214-1270: a proxy mesh per blocker, parented under the blocker group
\* and point-, orient- and scale-constrained to the blocker; a blocker whose
\* display name is taken is passed over
BlockerLoop(h, blockers) ==
    IF blockers = <<>> THEN h
    ELSE LET blocker == Head(blockers)
             mesh == [grp |-> display_blocker_grp, of |-> blocker, part |-> "", copy |-> 1,
                      scale |-> <<1, 1, 1>>]
         IN  IF \E m \in h.meshes : m.grp = display_blocker_grp /\ m.of = blocker
             THEN BlockerLoop(h, Tail(blockers))
             ELSE BlockerLoop([h EXCEPT !.meshes = @ \cup {mesh}], Tail(blockers))

\* displayBlocker, lines 1173-1283: 'for sel in save_selected' reads a name that
\* is not bound and raises NameError before anything else happens
displayBlockerBody(sel, h) ==
    LET blockers == SelectedBlockers(sel)
        h1 == _eitherCreateGetNode(_eitherCreateGetNode(h, mtoa_utils_grp), display_blocker_grp)
        h2 == CreateShader(h1, "displayBlocker_SHAD", "displayBlocker_SDEG")
    IN  IF "save_selected" \notin displayBlockerLocals
        THEN [helpers |-> h, selected |-> sel, out |-> Outcome("None", TRUE, FALSE)]
        ELSE IF blockers = <<>>
        THEN [helpers |-> h, selected |-> sel, out |-> Outcome("None", FALSE, FALSE)]
        ELSE [helpers |-> BlockerLoop(h2, blockers), selected |-> <<HelperMesh>>,
              out |-> Outcome("list", FALSE, TRUE)]

displayBlocker ==
    LET b == displayBlockerBody(selected, helpers)
    IN  /\ helpers' = b.helpers
        /\ selected' = RestoreSelection(selected, b.selected)
        /\ css' = IF b.out.ret = "list" THEN displayBlockerCSS(css, b.helpers) ELSE css
        /\ last' = Called("displayBlocker", "", selected,
                          _wrapperUndoChunck(_wrapperSelected(b.out)))
        /\ UNCHANGED <<panelVars, hierarchyChecked, returned, optimizer, layerVars, filterVars, attrVars, linkVars>>

\* deleteDisplayBlocker, lines 1285-1308
deleteDisplayBlockerBody(h) ==
    LET h1 == [h EXCEPT !.expressions = {e \in @ : e.feature # "displayBlocker"}]
        h2 == DeleteUtilsIfEmpty(DeleteGroup(h1, display_blocker_grp))
        h3 == [h2 EXCEPT !.shaders = @ \ {"displayBlocker_SHAD"}]
        h4 == DeleteSdeg(h3, "displayBlocker_SDEG")
    IN  [helpers |-> h4, out |-> Outcome("True", FALSE, h4 # h)]

deleteDisplayBlocker ==
    LET b == deleteDisplayBlockerBody(helpers)
    IN  /\ helpers' = b.helpers
        /\ css' = displayBlockerCSS(css, b.helpers)
        /\ last' = Called("deleteDisplayBlocker", "", selected, Undecorated(b.out))
        /\ UNCHANGED <<panelVars, userVars, returned, optimizer, layerVars, filterVars, attrVars, linkVars>>

\* the artist types a radius in the host's attribute editor; the host
\* evaluates the expressions that read it
RadiusValues == 0 .. MaxVal

EditRadius ==
    \E light \in {"key", "rim"} : \E v \in RadiusValues :
        /\ attrs' = [attrs EXCEPT ![RadiusPlug(light)] = v]
        /\ helpers' = Evaluate(helpers, attrs')
        /\ last' = NoCall
        /\ UNCHANGED <<panelVars, css, userVars, preAttrs, returned, optimizer, layerVars, filterVars, linkVars>>

\* the user picks among a light with aiRadius (by transform or shape), a light
\* without, and a blocker
DisplaySelections == DistinctSeqs({"key", "keyShape", "fill", "blockerATransform"}, MaxSel)

SelectForDisplay ==
    /\ \E sel \in DisplaySelections : selected' = sel
    /\ last' = NoCall
    /\ UNCHANGED <<panelVars, css, hierarchyChecked, helperVars, layerVars, filterVars, attrVars, linkVars>>

NextDisplay ==
    \/ SelectForDisplay
    \/ EditRadius
    \/ displayRadius
    \/ deleteDisplayRadius
    \/ displayBlocker
    \/ deleteDisplayBlocker

SpecDisplay == Init /\ [][NextDisplay]_vars

\* C15: displayBlocker with a blocker in the selection ends with a proxy mesh
\* for each selected blocker under 'displayBlocker_C_001_GRUP'; with no
\* blocker selected it ends without exception and without having made anything.
C15_BlockerProxiesMade ==
    last.op = "displayBlocker" =>
        /\ ~last.raised
        /\ \A blocker \in Range(SelectedBlockers(last.sel)) :
              /\ display_blocker_grp \in helpers.groups
              /\ \E m \in helpers.meshes : m.grp = display_blocker_grp /\ m.of = blocker
        /\ SelectedBlockers(last.sel) = <<>> => ~last.mutated

\* the display spheres of the radius feature
RadiusHelpers == {m \in helpers.meshes : m.grp = display_radius_grp}

\* C16: from displayRadius to deleteDisplayRadius every display sphere has its
\* three scale axes equal to the current aiRadius of its light and stands under
\* 'displayRadius_C_001_GRUP'; a light without aiRadius has no display sphere.
C16_HelperMirrorsRadius ==
    /\ \A m \in RadiusHelpers :
          /\ RadiusPlug(m.of) \in AttrPlugs
          /\ m.scale = <<attrs[RadiusPlug(m.of)], attrs[RadiusPlug(m.of)],
                          attrs[RadiusPlug(m.of)]>>
          /\ display_radius_grp \in helpers.groups
    /\ last.op = "displayRadius" =>
          \A light \in {getParent(n) : n \in SelectedLightShapes(last.sel)} :
              (RadiusPlug(light) \in AttrPlugs) <=> (\E m \in RadiusHelpers : m.of = light)

\* the key light's sphere was made at radius 0 and follows the radius to 2
C16_Witness ==
    /\ attrs[RadiusPlug("key")] = 2
    /\ \E m \in RadiusHelpers : m.of = "key" /\ m.scale = <<2, 2, 2>>
    /\ \A m \in RadiusHelpers : m.of # "fill"

----------------------------------------------------------------------------
(* Claims about what the wrapped callbacks hand back and leave selected *)

\* C17: the caller of a panel operation receives the value its docstring
\* documents: the list of lights from soloLights and muteLights when lights are
\* found, True from restoreLights when a layer was deleted and False otherwise.
C17_DocumentedValueReturned ==
    LET found == ~_onlyLightsFromSelection(last.sel, FALSE, hierarchyChecked).isNone
    IN  /\ (last.op \in {"soloLights", "muteLights"} /\ found) => last.ret = "list"
        /\ last.op = "restoreLights" =>
               last.ret = IF last.mutated THEN "True" ELSE "False"

\* the operations decorated with _wrapperSelected
WrappedBySelected ==
    {"soloLights", "muteLights", "makeLightLinks", "breakLightLinks",
     "displayRadius", "displayBlocker"}

\* C19: an operation wrapped by _wrapperSelected leaves the selection as it
\* was when the operation was invoked.
C19_SelectionPreserved ==
    last.op \in WrappedBySelected => selected = last.sel

----------------------------------------------------------------------------
(* The selection classifier on its own *)

\* a caller asks for the selected lights, as transforms or as shapes
\* (lines 2081-2122, with the default all_hierachy=False)
onlyLightsFromSelection(get_shapes) ==
    LET r == _onlyLightsFromSelection(selected, get_shapes, FALSE)
    IN  /\ returned' = r
        /\ last' = Called("_onlyLightsFromSelection", [get_shapes |-> get_shapes],
                          selected,
                          Undecorated(Outcome(IF r.isNone THEN "None" ELSE "list",
                                              FALSE, FALSE)))
        /\ UNCHANGED <<panelVars, css, userVars, layerVars, filterVars, attrVars, linkVars, helpers,
                     optimizer>>

\* the user picks nodes; the value returned earlier stays with its caller
SelectForClassifier ==
    /\ \E sel \in LayerSelections : selected' = sel
    /\ last' = NoCall
    /\ UNCHANGED <<panelVars, css, hierarchyChecked, layerVars, filterVars, attrVars, linkVars,
                   helperVars>>

NextClassifier ==
    \/ SelectForClassifier
    \/ onlyLightsFromSelection(FALSE)
    \/ onlyLightsFromSelection(TRUE)

SpecClassifier == Init /\ [][NextClassifier]_vars

\* a selected node that is a light shape, or a transform above a light shape
IsLightNode(n) ==
    \E s \in Shapes :
        /\ nodeType(s) \in lgt_types
        /\ n = s \/ (n \in Transforms /\ getShape(n) = s)

\* the light n as a shape and as a transform
AsShape(n)     == IF n \in Shapes THEN n ELSE getShape(n)
AsTransform(n) == IF n \in Transforms THEN n ELSE getParent(n)

\* C18: _onlyLightsFromSelection returns, in selection order, exactly the
\* selected nodes that are lights (a transform counts through its shape, a
\* shapeless transform is skipped), as transforms by default and as shapes when
\* get_shapes is true, and None, never an empty list, when no light is selected.
C18_ExactlySelectedLights ==
    last.op = "_onlyLightsFromSelection" =>
        LET picked == SelectSeq(last.sel, IsLightNode)
            expected == [i \in 1..Len(picked) |->
                            IF last.arg.get_shapes THEN AsShape(picked[i])
                            ELSE AsTransform(picked[i])]
        IN  IF picked = <<>>
            THEN returned.isNone /\ last.ret = "None"
            ELSE ~returned.isNone /\ returned.list = expected

\* a group was selected ahead of a light; the light alone came back
C18_Witness ==
    /\ last.op = "_onlyLightsFromSelection"
    /\ last.sel = <<"grp", "fill">>
    /\ ~last.arg.get_shapes
    /\ returned = [isNone |-> FALSE, list |-> <<"fill">>]

----------------------------------------------------------------------------
(* Light optimizer *)

MaxOver == 1       \* how far above the slider maximum an attribute value may lie

\* lines 127-135: the attributes offered by the combo box
optimize_attrs ==
    {"aiSamples", "aiIndirect", "aiMaxBounces", "aiRadius", "aiVolumeSamples",
     "aiVolume", "aiExposure", "intensity"}

\* __lightOptimizer__adaptSlider, lines 1988-2022: the maximum given to the
\* sliders and the spin boxes for the attribute of the combo box
slider_maximum(attr_) ==
    CASE attr_ \in {"aiSamples", "aiVolumeSamples"} -> 11
      [] attr_ \in {"aiIndirect", "aiVolume"}       -> 1
      [] attr_ = "aiMaxBounces"                     -> 999
      [] attr_ = "aiRadius"                         -> 101
      [] attr_ \in {"aiExposure", "intensity"}      -> 21

\* _getAllLights(get_shapes=True), lines 2065-2067: pm.ls(type=...) for each
\* type in the order of lgt_types (pointLight, spotLight, ..., aiAreaLight)
all_lights == <<"rimShape", "keyShape", "fillShape">>

\* whether pm.getAttr("light.attr_") finds the plug: the area light has no aiRadius
getAttrFinds(light, attr_) ==
    attr_ = "aiRadius" => objExistsAttr(light, "aiRadius")

\* lines 1923-1928: the entry of one light
light_data(light, attr_, value) ==
    [lightname |-> light, transform |-> getParent(light), type |-> nodeType(light),
     attribute |-> attr_, value |-> value]

RECURSIVE SortingLoop(_, _, _)
\* lines 1920-1956: the if / elif chain over every light; only the first and the
\* last branch append the entry they build
SortingLoop(lights, opt, out) ==
    IF lights = <<>> THEN [raised |-> FALSE, out |-> out]
    ELSE LET light == Head(lights)
             attr_ == opt.attr
             value == opt.value[light]
             data  == light_data(light, attr_, value)
         IN  IF ~getAttrFinds(light, attr_) THEN [raised |-> TRUE, out |-> out]
             ELSE IF value >= opt.min /\ value <= opt.max
             THEN SortingLoop(Tail(lights), opt, Append(out, data))
             ELSE IF opt.max = 11 /\ value >= 10
                     /\ attr_ \in {"aiSamples", "aiVolumeSamples"}
             THEN SortingLoop(Tail(lights), opt, out)
             ELSE IF opt.max = 101 /\ value >= 100 /\ attr_ = "aiRadius"
             THEN SortingLoop(Tail(lights), opt, out)
             ELSE IF opt.max = 21 /\ value >= 20
                     /\ attr_ \in {"aiExposure", "intensity"}
             THEN SortingLoop(Tail(lights), opt, Append(out, data))
             ELSE SortingLoop(Tail(lights), opt, out)

RECURSIVE InsertByValue(_, _)
\* the place of an entry in a list sorted by value, after the entries of equal value
InsertByValue(list, item) ==
    IF list = <<>> THEN <<item>>
    ELSE IF Head(list).value <= item.value
         THEN <<Head(list)>> \o InsertByValue(Tail(list), item)
         ELSE <<item>> \o list

RECURSIVE sorted(_)
\* sorted(out, key=lambda k: k['value']): ascending and stable
sorted(out) ==
    IF out = <<>> THEN <<>>
    ELSE InsertByValue(sorted(SubSeq(out, 1, Len(out) - 1)), out[Len(out)])

reversed(list) == [i \in 1..Len(list) |-> list[Len(list) + 1 - i]]

\* _lightOptimizer__sortingLights, lines 1898-1959
_lightOptimizer__sortingLights(opt) ==
    LET r == SortingLoop(all_lights, opt, <<>>)
    IN  IF all_lights = <<>> THEN [raised |-> FALSE, isNone |-> TRUE, list |-> <<>>]
        ELSE IF r.raised THEN [raised |-> TRUE, isNone |-> TRUE, list |-> <<>>]
        ELSE [raised |-> FALSE, isNone |-> FALSE, list |-> reversed(sorted(r.out))]

\* __lightOptimizer__populateGrid, lines 1961-1981: the list widget is cleared
\* (line 1908) and receives one item per entry, in the order of the entries
lightOptimizer__populateGrid ==
    LET r == _lightOptimizer__sortingLights(optimizer)
    IN  /\ returned' = [isNone |-> r.isNone, list |-> r.list]
        /\ last' = Called("__lightOptimizer__populateGrid", optimizer.attr, selected,
                          Undecorated(Outcome(IF r.isNone THEN "None" ELSE "list",
                                              r.raised, FALSE)))
        /\ UNCHANGED <<panelVars, css, userVars, layerVars, filterVars, attrVars, linkVars, helpers,
                       optimizer>>

\* the values looked at: nought, and the values around the slider maximum
OptimizerValues(attr_) ==
    {0} \cup ((slider_maximum(attr_) - 1 - MaxOver) .. (slider_maximum(attr_) + MaxOver))

\* the spin boxes stay within 0 .. slider_maximum
SpinChoices(attr_) ==
    {0} \cup ((slider_maximum(attr_) - MaxOver) .. slider_maximum(attr_))

OptimizerStates ==
    UNION { [attr : {a}, min : SpinChoices(a), max : SpinChoices(a),
             value : [LightShapes -> OptimizerValues(a)]] : a \in optimize_attrs }

InitOptimizer ==
    /\ selected = <<>>
    /\ hierarchyChecked = FALSE
    /\ layers = [n \in LayerNames |-> NoLayer]
    /\ layerConflict = FALSE
    /\ aiFilters = NoFilters
    /\ filters = DefaultFilters
    /\ preFilters = [aiFilters |-> NoFilters, filters |-> DefaultFilters]
    /\ attrs = DefaultAttrs
    /\ preAttrs = DefaultAttrs
    /\ links = DefaultLinks
    /\ preLinks = DefaultLinks
    /\ hostCmd = NoHostCmd
    /\ helpers = NoHelpers
    /\ returned = NoValue
    /\ optimizer \in OptimizerStates
    /\ css = DefaultStyles
    /\ look = DefaultLook
    /\ scan = Idle
    /\ last = NoCall

NextOptimizer ==
    \/ lightOptimizer__populateGrid

SpecOptimizer == InitOptimizer /\ [][NextOptimizer]_vars

\* the lights the browser is to show: value within min..max, or beyond the
\* slider when max sits at its top and the attribute has an open-ended slider
OpenEnded == {"aiSamples", "aiVolumeSamples", "aiRadius", "aiExposure", "intensity"}

ToBeListed(opt) ==
    {l \in LightShapes :
        \/ opt.min <= opt.value[l] /\ opt.value[l] <= opt.max
        \/ /\ opt.attr \in OpenEnded
           /\ opt.max = slider_maximum(opt.attr)
           /\ opt.value[l] >= slider_maximum(opt.attr) - 1}

\* C20: the browser lists exactly the lights whose value lies within min..max,
\* highest value first, and with max at the top of an open-ended slider also
\* the lights whose value lies beyond the slider.
C20_BrowserListsRange ==
    last.op = "__lightOptimizer__populateGrid" =>
        LET list == returned.list
        IN  /\ {list[i].lightname : i \in DOMAIN list} = ToBeListed(optimizer)
            /\ Len(list) = Cardinality(ToBeListed(optimizer))
            /\ \A i \in DOMAIN list : list[i].value = optimizer.value[list[i].lightname]
            /\ \A i, j \in DOMAIN list : i < j => list[i].value >= list[j].value

----------------------------------------------------------------------------
(* Undo chunks *)

\* the layer callbacks next to a callback whose body raises
NextUndo ==
    \/ SelectNodes
    \/ ToggleHierarchy
    \/ soloLights
    \/ muteLights
    \/ restoreLights
    \/ displayBlocker

SpecUndo == Init /\ [][NextUndo]_vars

\* the open-chunk depth after the first n undoInfo commands of a callback
ChunkDepth(trace, n) ==
    Cardinality({i \in 1..n : trace[i] = "openChunk"})
    - Cardinality({i \in 1..n : trace[i] = "closeChunk"})

\* C21: undo chunks are balanced: over the undoInfo commands of any callback,
\* the ones that raise included, the open-chunk depth is never negative and is
\* zero again when the callback ends, so every openChunk has its closeChunk and
\* nested wrapped calls close innermost first.
C21_UndoChunksBalanced ==
    /\ \A n \in 0..Len(last.undo) : ChunkDepth(last.undo, n) >= 0
    /\ ChunkDepth(last.undo, Len(last.undo)) = 0
    /\ last.chunked => Len(last.undo) >= 2

\* displayBlocker raised inside its chunk, and the chunk was closed
C21_Witness ==
    /\ last.op = "displayBlocker"
    /\ last.raised
    /\ last.undo = <<"openChunk", "closeChunk">>

\* soloLights called restoreLights: the inner chunk closed before the outer one
C21_NestedWitness ==
    /\ last.op = "soloLights"
    /\ last.undo = <<"openChunk", "openChunk", "closeChunk", "closeChunk">>

----------------------------------------------------------------------------
(* Claims about the button styles *)

\* the style each button is to have for the scene as it stands
StylesOfScene ==
    [b \in {"soloLights", "muteLights", "displayNearDecay", "displayFarDecay"} |->
        CASE b = "soloLights"       -> StyleFor(objExistsLayer(layers, displayed_layer_name))
          [] b = "muteLights"       -> StyleFor(objExistsLayer(layers, muted_layer_name))
          [] b = "displayNearDecay" -> StyleFor(display_decay_near_grp \in helpers.groups)
          [] b = "displayFarDecay"  -> StyleFor(display_decay_far_grp \in helpers.groups)]

\* C30: after soloLights, muteLights, restoreLights, displayDecay and
\* deleteDisplayDecay, however the call ended, the solo, mute, near-decay and
\* far-decay buttons are highlighted exactly when 'displayedLights',
\* 'mutedLights', the near-decay group and the far-decay group exist.
C30_ButtonsTrackScene ==
    last.op \in {"soloLights", "muteLights", "restoreLights", "displayDecay",
                 "deleteDisplayDecay"} =>
        \A b \in DOMAIN StylesOfScene : css[b] = StylesOfScene[b]

----------------------------------------------------------------------------
(* Claims about the decay display *)

\* the group of the decay type a displayDecay call was made for
DecayGroup(decay_type) ==
    IF decay_type = "near" THEN display_decay_near_grp ELSE display_decay_far_grp

\* the light has its start and end markers under the group
HasMarkers(light, grp) ==
    \A part \in {"Start", "End"} :
        \E m \in helpers.meshes : m.grp = grp /\ m.of = light /\ m.part = part

\* C25: when displayDecay meets a selected light without aiLightDecay it skips
\* that light and goes on: no exception is raised, and every selected light
\* that has a decay gets its start and end markers and has the decay's
\* use<Near|Far>Atten switched on.
C25_LightWithoutDecaySkipped ==
    LET lights == Range(last.sel)
        bare   == {l \in lights : DecayOf(aiFilters, getShape(l)) = NoNode}
    IN  (last.op = "displayDecay" /\ bare # {}) =>
            /\ ~last.raised
            /\ \A l \in lights \ bare :
                  LET decay == DecayOf(aiFilters, getShape(l))
                  IN  /\ HasMarkers(l, DecayGroup(last.arg))
                      /\ IF last.arg = "near" THEN filters[decay].useNearAtten
                         ELSE filters[decay].useFarAtten

----------------------------------------------------------------------------
(* Further claims about the display layers *)

\* C29: a guard-clause exit of soloLights changes nothing: invoked while the
\* selection holds no light, it leaves the 'displayedLights' and 'mutedLights'
\* layers that existed, with their members, in place.
C29_SoloGuardKeepsLayers ==
    [][(soloLights /\ _onlyLightsFromSelection(selected, FALSE, hierarchyChecked).isNone) =>
          \A n \in {displayed_layer_name, muted_layer_name} :
              layers[n].exists =>
                  layers'[n].exists /\ layers'[n].members = layers[n].members]_vars

\* what muteLights is to do in one step, for the lights the selection designates
MuteAccumulates ==
    LET lights == SelectedLights(selected, hierarchyChecked)
    IN  (muteLights /\ lights # {}) =>
            /\ layers'[muted_layer_name].exists
            /\ ~layers'[muted_layer_name].visibility
            /\ layers'[muted_layer_name].members
                  = IF layers[muted_layer_name].exists
                    THEN layers[muted_layer_name].members \cup lights
                    ELSE lights
            /\ layers'[displayed_layer_name].exists = layers[displayed_layer_name].exists

\* C27: muteLights accumulates: the selected lights join 'mutedLights' and
\* its earlier members stay; a layer that did not exist is created hidden with
\* exactly the selected lights; muteLights neither creates nor deletes
\* 'displayedLights'; no light is a member of both layers.
C27_MuteAccumulates ==
    /\ [][MuteAccumulates]_vars
    /\ [](layers[displayed_layer_name].members \cap layers[muted_layer_name].members = {})

----------------------------------------------------------------------------
(* The classifier with and without hierarchy expansion *)

\* a caller asks for the selected lights with all_hierachy as the toggle stands
\* (lines 328, 363)
onlyLightsOfHierarchy ==
    LET r == _onlyLightsFromSelection(selected, FALSE, hierarchyChecked)
    IN  /\ returned' = r
        /\ last' = Called("_onlyLightsFromSelection",
                          [get_shapes |-> FALSE, all_hierachy |-> hierarchyChecked],
                          selected,
                          Undecorated(Outcome(IF r.isNone THEN "None" ELSE "list",
                                              FALSE, FALSE)))
        /\ UNCHANGED <<panelVars, css, userVars, layerVars, filterVars, attrVars, linkVars,
                       helpers, optimizer>>

\* the user's clicks keep the value returned earlier with its caller
ToggleForClassifier ==
    /\ hierarchyChecked' = ~hierarchyChecked
    /\ last' = NoCall
    /\ UNCHANGED <<panelVars, css, selected, layerVars, filterVars, attrVars, linkVars,
                   helperVars>>

NextHierarchy ==
    \/ SelectForClassifier
    \/ ToggleForClassifier
    \/ onlyLightsOfHierarchy

SpecHierarchy == Init /\ [][NextHierarchy]_vars

\* C28: hierarchy expansion only widens the result: every light returned with
\* all_hierachy=False is returned with all_hierachy=True as well, and no light
\* appears twice in the expanded result.
C28_HierarchyOnlyWidens ==
    (last.op = "_onlyLightsFromSelection" /\ last.arg.all_hierachy) =>
        /\ Range(_onlyLightsFromSelection(last.sel, FALSE, FALSE).list)
              \subseteq Range(returned.list)
        /\ \A i, j \in DOMAIN returned.list :
              i # j => returned.list[i] # returned.list[j]

----------------------------------------------------------------------------
(* The display helpers side by side *)

\* the user picks the light that has a radius and a decay, or nothing
HelperSelections == DistinctSeqs({"key"}, MaxSel)

SelectForHelpers ==
    /\ \E sel \in HelperSelections : selected' = sel
    /\ last' = NoCall
    /\ UNCHANGED <<panelVars, css, hierarchyChecked, helperVars, layerVars, filterVars,
                   attrVars, linkVars>>

NextHelpers ==
    \/ SelectForHelpers
    \/ displayRadius
    \/ deleteDisplayRadius
    \/ displayBlocker
    \/ deleteDisplayBlocker
    \/ displayNearDecay
    \/ deleteDisplayDecay

SpecHelpers == InitDecay /\ [][NextHelpers]_vars

\* what belongs to each display feature
FeatureGroups(feature) ==
    CASE feature = "displayRadius"  -> {display_radius_grp}
      [] feature = "displayBlocker" -> {display_blocker_grp}
      [] feature = "displayDecay"   -> {display_decay_near_grp, display_decay_far_grp}

FeatureShaders(feature) ==
    CASE feature = "displayRadius"  -> {"displayRadius_SHAD"}
      [] feature = "displayBlocker" -> {"displayBlocker_SHAD"}
      [] feature = "displayDecay"   -> {"displayDecayStart_SHAD", "displayDecayEnd_SHAD"}

FeatureSdeg(feature) ==
    CASE feature = "displayRadius"  -> {"displayRadius_SDEG"}
      [] feature = "displayBlocker" -> {"displayBlocker_SDEG"}
      [] feature = "displayDecay"   -> {"displayDecayStart_SDEG", "displayDecayEnd_SDEG",
                                        "startDisplayDecay_SDEG", "endDisplayDecay_SDEG"}

\* one step that deletes the helpers of a feature: what belongs to the other
\* features stays, and the utility group goes exactly when no group is left in it
DeletesOnlyOwn(feature) ==
    LET others(h) == h.groups \ (FeatureGroups(feature) \cup {mtoa_utils_grp})
    IN  /\ others(helpers') = others(helpers)
        /\ helpers'.groups \cap FeatureGroups(feature) = {}
        /\ {m \in helpers'.meshes : m.grp \notin FeatureGroups(feature)}
              = {m \in helpers.meshes : m.grp \notin FeatureGroups(feature)}
        /\ {e \in helpers'.expressions : e.feature # feature}
              = {e \in helpers.expressions : e.feature # feature}
        /\ helpers'.shaders \ FeatureShaders(feature) = helpers.shaders \ FeatureShaders(feature)
        /\ \A n \in SdegNames \ FeatureSdeg(feature) : helpers'.sdeg[n] = helpers.sdeg[n]
        /\ (mtoa_utils_grp \in helpers'.groups)
              <=> (mtoa_utils_grp \in helpers.groups /\ others(helpers) # {})

----------------------------------------------------------------------------
(* Look-through *)

MaxWindows == 2    \* how many panels and look-through windows are constructed at most

offLook == <<hierarchyChecked, layerVars, filterVars, attrVars, linkVars, helperVars, scan>>

\* _isLookThrough, lines 466-482: a camera whose parent transform carries a
\* light shape, None when there is none.  The cameras are known by the light
\* they sit under; which one pm.ls(ca=True) lists first is the host's business.
_isLookThrough(cams) == IF cams = {} THEN {NoNode} ELSE cams

\* 'if looked_through is not None: pm.delete(looked_through)'
DeleteLookedThrough(cams, looked_through) == cams \ {looked_through}

\* __lookThroughCSS, lines 484-499
lookThroughCSS(c, cams) == [c EXCEPT !["lookThrough"] = StyleFor(cams # {})]

\* lookThroughModelPanelClipped(light, panel, ...): the host puts a camera
\* below the light's transform, unless one is there
lookThroughModelPanelClipped(cams, light) == cams \cup {light}

\* JMLookThroughWindow.lookThroughLightSelected, lines 2214-2231: the window
\* looks through the last selected light
lookThroughLightSelected(lk, sel) ==
    LET found == _onlyLightsFromSelection(sel, FALSE, FALSE)
        lightname == IF found.isNone THEN NoNode ELSE found.list[Len(found.list)]
    IN  IF lightname # NoNode
        THEN [lk EXCEPT !.lightname = lightname,
                        !.cams = lookThroughModelPanelClipped(@, lightname)]
        ELSE [lk EXCEPT !.lightname = NoNode]

\* createLookThroughWindow, lines 2387-2418.  JMLookThroughWindow.__init__
\* deletes the looked-through camera it finds (line 2161).
createLookThroughWindowBody(lk, sel, looked_through) ==
    LET lk1 == IF lk.LOOK_WINDOW = 0
               THEN [lk EXCEPT !.LOOK_WINDOW = lk.lookWindows + 1,
                               !.lookWindows = @ + 1,
                               !.cams = DeleteLookedThrough(@, looked_through)]
               ELSE lk
    IN  IF lk.MAIN_WINDOW = 0 THEN lk
        ELSE IF _onlyLightsFromSelection(sel, FALSE, FALSE).isNone THEN lk
        ELSE lookThroughLightSelected(lk1, sel)

\* lookThrough, lines 424-464; a model panel is visible
lookThroughBody(lk, sel, looked_through) ==
    LET lights == _onlyLightsFromSelection(sel, FALSE, FALSE)
    IN  IF looked_through # NoNode
        THEN [look |-> [lk EXCEPT !.cams = DeleteLookedThrough(@, looked_through)],
              out |-> Outcome("None", FALSE, TRUE)]
        ELSE IF lk.windowChecked
        THEN LET lk1 == createLookThroughWindowBody(lk, sel, looked_through)
             IN  [look |-> lk1, out |-> Outcome("None", FALSE, lk1 # lk)]
        ELSE IF ~lights.isNone
        THEN [look |-> [lk EXCEPT !.cams = lookThroughModelPanelClipped(@, lights.list[1])],
              out |-> Outcome("None", FALSE, TRUE)]
        ELSE [look |-> lk, out |-> Outcome("None", FALSE, FALSE)]

\* the look-through button (line 190); the panel it sits on is open
lookThrough ==
    \E looked_through \in _isLookThrough(look.cams) :
        LET b == lookThroughBody(look, selected, looked_through)
        IN  /\ look.MAIN_WINDOW # 0
            /\ b.look.lookWindows <= MaxWindows
            /\ look' = b.look
            /\ css' = lookThroughCSS(css, b.look.cams)
            /\ last' = Called("lookThrough", "", selected, _wrapperUndoChunck(b.out))
            /\ UNCHANGED <<selected, offLook>>

\* the window toggle next to the button (line 191)
ToggleLookWindow ==
    /\ look.MAIN_WINDOW # 0
    /\ look' = [look EXCEPT !.windowChecked = ~@]
    /\ css' = lookThroughCSS(css, look.cams)
    /\ last' = NoCall
    /\ UNCHANGED <<selected, offLook>>

\* the user picks among two lights and a mesh
LookSelections == DistinctSeqs({"key", "fill", "geo"}, MaxSel)

SelectForLook ==
    /\ \E sel \in LookSelections : selected' = sel
    /\ last' = NoCall
    /\ UNCHANGED <<look, css, offLook>>

NextLook ==
    \/ SelectForLook
    \/ ToggleLookWindow
    \/ lookThrough

SpecLook == Init /\ [][NextLook]_vars

\* the first light of a selection, as a transform
FirstSelectedLight(sel) ==
    LET picked == SelectSeq(sel, IsLightNode)
    IN  IF picked = <<>> THEN NoNode ELSE AsTransform(picked[1])

\* one lookThrough step as a toggle
LookThroughToggles ==
    lookThrough =>
        IF look.cams # {}
        THEN look'.cams \subseteq look.cams
                /\ Cardinality(look'.cams) = Cardinality(look.cams) - 1
        ELSE IF FirstSelectedLight(selected) # NoNode
        THEN look'.cams = {FirstSelectedLight(selected)}
        ELSE look'.cams = {}

\* C23: lookThrough is a toggle: with a look-through camera in the scene the
\* call deletes it and creates nothing; otherwise, with a light selected, it
\* creates one for the first selected light; at most one look-through camera
\* exists after any sequence of calls.
C23_LookThroughToggles ==
    /\ [][LookThroughToggles]_vars
    /\ [](Cardinality(look.cams) <= 1)

----------------------------------------------------------------------------
(* The panel and its look-through window *)

\* mainWindowClosed that forgets the look-through window
mainWindowClosedKeepsLook(lk) ==
    IF lk.MAIN_WINDOW # 0 THEN [lk EXCEPT !.MAIN_WINDOW = 0] ELSE lk

\* mainWindowClosed, lines 2420-2428
mainWindowClosedBody(lk) ==
    IF lk.MAIN_WINDOW # 0
    THEN [lk EXCEPT !.MAIN_WINDOW = 0, !.LOOK_WINDOW = 0]
    ELSE lk

\* JMLightToolkit.__init__, lines 282-289: a new panel styles its buttons from
\* the scene; its toggles start unchecked
StylesAtConstruction ==
    lookThroughCSS(
        displayDecayCSS(
            displayBlockerCSS(
                displayRadiusCSS(soloMuteLightsCSS(css, layers), helpers), helpers), helpers),
        look.cams)

\* main, lines 2430-2456
main ==
    /\ look.MAIN_WINDOW # 0 \/ look.toolkits < MaxWindows
    /\ IF look.MAIN_WINDOW = 0
       THEN /\ look' = [look EXCEPT !.MAIN_WINDOW = look.toolkits + 1,
                                    !.toolkits = @ + 1,
                                    !.windowChecked = FALSE]
            /\ css' = StylesAtConstruction
            /\ hierarchyChecked' = FALSE
       ELSE UNCHANGED <<look, css, hierarchyChecked>>
    /\ last' = Called("main", "", selected, Undecorated(Outcome("MAIN_WINDOW", FALSE, look.MAIN_WINDOW = 0)))
    /\ UNCHANGED <<selected, layerVars, filterVars, attrVars, linkVars, helperVars, scan>>

\* the panel's closeCallback
mainWindowClosed ==
    /\ look' = mainWindowClosedBody(look)
    /\ last' = Called("mainWindowClosed", "", selected,
                      Undecorated(Outcome("None", FALSE, look.MAIN_WINDOW # 0)))
    /\ UNCHANGED <<selected, css, offLook>>

\* createLookThroughWindow called by the host (the window's uiScript) or by hand
createLookThroughWindow ==
    \E looked_through \in _isLookThrough(look.cams) :
        LET lk == createLookThroughWindowBody(look, selected, looked_through)
        IN  /\ lk.lookWindows <= MaxWindows
            /\ look' = lk
            /\ last' = Called("createLookThroughWindow", "", selected,
                              Undecorated(Outcome(IF lk.MAIN_WINDOW = 0 \/ lk.lightname = NoNode
                                                    THEN "None" ELSE "LOOK_WINDOW",
                                                  FALSE, lk # look)))
            /\ UNCHANGED <<selected, css, offLook>>

\* _lookThroughWindowClosed, lines 2380-2385: the window's closeCallback
_lookThroughWindowClosed ==
    \E looked_through \in _isLookThrough(look.cams) :
        /\ look' = IF look.LOOK_WINDOW # 0
                   THEN [look EXCEPT !.LOOK_WINDOW = 0,
                                     !.cams = DeleteLookedThrough(@, looked_through)]
                   ELSE look
        /\ last' = Called("_lookThroughWindowClosed", "", selected,
                          Undecorated(Outcome("None", FALSE, look.LOOK_WINDOW # 0)))
        /\ UNCHANGED <<selected, css, offLook>>

\* lines 27-29: the module as imported, before main() ran
InitWindows ==
    /\ selected = <<>>
    /\ hierarchyChecked = FALSE
    /\ layers = [n \in LayerNames |-> NoLayer]
    /\ layerConflict = FALSE
    /\ aiFilters = NoFilters
    /\ filters = DefaultFilters
    /\ preFilters = DefaultFilters
    /\ attrs = DefaultAttrs
    /\ preAttrs = DefaultAttrs
    /\ links = DefaultLinks
    /\ preLinks = DefaultLinks
    /\ hostCmd = NoHostCmd
    /\ helpers = NoHelpers
    /\ returned = NoValue
    /\ optimizer = DefaultOptimizer
    /\ css = DefaultStyles
    /\ look = [DefaultLook EXCEPT !.MAIN_WINDOW = 0, !.toolkits = 0]
    /\ scan = Idle
    /\ last = NoCall

NextWindows ==
    \/ SelectForLook
    \/ main
    \/ mainWindowClosed
    \/ createLookThroughWindow
    \/ _lookThroughWindowClosed
    \/ ToggleLookWindow
    \/ lookThrough

SpecWindows == InitWindows /\ [][NextWindows]_vars

\* main() constructs a panel only when there is none, else hands back the one there is
MainIsSingleton ==
    main => /\ last'.ret = "MAIN_WINDOW"
            /\ look'.MAIN_WINDOW # 0
            /\ IF look.MAIN_WINDOW = 0
               THEN look'.toolkits = look.toolkits + 1
               ELSE look'.toolkits = look.toolkits /\ look'.MAIN_WINDOW = look.MAIN_WINDOW

\* createLookThroughWindow() constructs nothing without a panel or without a light
LookWindowNeedsPanelAndLight ==
    createLookThroughWindow =>
        (look.MAIN_WINDOW = 0 \/ FirstSelectedLight(selected) = NoNode
            => look'.lookWindows = look.lookWindows /\ look'.LOOK_WINDOW = look.LOOK_WINDOW)

\* C24: the panel windows are singletons with a dependent lifetime: main()
\* constructs a JMLightToolkit only when MAIN_WINDOW is None and otherwise
\* returns the existing one, createLookThroughWindow() constructs nothing when
\* MAIN_WINDOW is None or no light is selected, and in every reachable state
\* LOOK_WINDOW not None implies MAIN_WINDOW not None.
C24_WindowsAreSingletons ==
    /\ [][MainIsSingleton]_vars
    /\ [][LookWindowNeedsPanelAndLight]_vars
    /\ [](look.LOOK_WINDOW # 0 => look.MAIN_WINDOW # 0)

\* a second panel, opened after the first was closed with its look-through
\* window, has a look-through window of its own
C24_Witness ==
    /\ last.op = "createLookThroughWindow"
    /\ look.toolkits = 2 /\ look.MAIN_WINDOW = 2
    /\ look.lookWindows = 2 /\ look.LOOK_WINDOW = 2

----------------------------------------------------------------------------
(* The filter callbacks statement by statement *)

\* 'i += 1' left out
NextIndexStuck(i) == i

\* 'i += 1', lines 914, 929, 991 and 1800
NextIndex(i) == i + 1

\* driver_connection["aiFilters[%s]" % i] = ...: the dict keeps one entry per
\* key; the keys are met in the order 0, 1, 2, ...
PutAt(dict, i, value) ==
    IF i < Len(dict) THEN [dict EXCEPT ![i + 1] = value] ELSE Append(dict, value)

offScan == <<hierarchyChecked, layers, layerConflict, attrVars, linkVars, helperVars, css, look>>

\* the callback hands control back to the host
Return(op, arg, out) ==
    /\ scan' = Idle
    /\ last' = Called(op, arg, selected, _wrapperUndoChunck(out))

\* transfertLightFilters, lines 897-910: up to the first loop
StartTransfer ==
    LET found == _onlyLightsFromSelection(selected, TRUE, FALSE)
    IN  /\ scan.op = "idle"
        /\ preFilters' = [aiFilters |-> aiFilters, filters |-> filters]
        /\ IF found.isNone
           THEN Return("transfertLightFilters", "", Outcome("None", FALSE, FALSE))
           ELSE /\ scan' = [Idle EXCEPT !.op = "transfertLightFilters", !.pc = "driver",
                                        !.lgts = found.list, !.rest = Tail(found.list)]
                /\ UNCHANGED last
        /\ UNCHANGED <<selected, aiFilters, filters, offScan>>

\* lines 911-919: one turn of the loop over the driver's plugs, or its exit
ScanDriver ==
    LET driver == scan.lgts[1]
        plugged == PluggedAt(aiFilters[driver], scan.i)
    IN  /\ scan.op = "transfertLightFilters" /\ scan.pc = "driver"
        /\ IF plugged # NoNode
           THEN /\ scan' = [scan EXCEPT !.driver_connection = PutAt(@, scan.i, plugged),
                                        !.i = NextIndex(scan.i)]
                /\ UNCHANGED last
           ELSE IF scan.driver_connection = <<>>
           THEN Return("transfertLightFilters", "", Outcome("None", FALSE, FALSE))
           ELSE /\ scan' = [scan EXCEPT !.pc = "slave", !.i = 0]
                /\ UNCHANGED last
        /\ UNCHANGED <<selected, aiFilters, filters, preFilters, offScan>>

\* lines 923-934: one turn of the loop over a slave's plugs, or its exit with
\* the driver's filters plugged in; lines 936-938 after the last slave
ScanSlave ==
    /\ scan.op = "transfertLightFilters" /\ scan.pc = "slave"
    /\ IF scan.rest = <<>>
       THEN /\ selected' = SelectList(Tail(scan.lgts))
            /\ Return("transfertLightFilters", "",
                      Outcome("dict", FALSE, Tail(scan.lgts) # <<>>))
            /\ UNCHANGED aiFilters
       ELSE LET slave == Head(scan.rest)
                dc    == scan.driver_connection
            IN  IF PluggedAt(aiFilters[slave], scan.i) # NoNode
                THEN /\ aiFilters' = [aiFilters EXCEPT ![slave][scan.i] = NoNode]
                     /\ scan' = [scan EXCEPT !.i = NextIndex(scan.i)]
                     /\ UNCHANGED <<selected, last>>
                ELSE /\ aiFilters' = [aiFilters EXCEPT ![slave] =
                                         [k \in Plugs |-> IF k < Len(dc) THEN dc[k + 1] ELSE @[k]]]
                     /\ scan' = [scan EXCEPT !.rest = Tail(@), !.i = 0]
                     /\ UNCHANGED <<selected, last>>
    /\ UNCHANGED <<filters, preFilters, offScan>>

\* linkLightFilterToLights, lines 941-978: up to the loops; the call is left
\* out when it would need a filter node beyond those modelled
StartLink(filter_) ==
    LET picked == SortPicked(selected, filter_, <<>>, <<>>)
        pool   == FreshFilters(filter_, filters)
        create == picked.filters = <<>>
        fresh  == CHOOSE f \in pool : TRUE
    IN  /\ scan.op = "idle"
        /\ preFilters' = [aiFilters |-> aiFilters, filters |-> filters]
        /\ IF filter_ \notin {"aiLightDecay", "aiLightBlocker", "aiGobo"}
           THEN Return("linkLightFilterToLights", filter_, Outcome("None", FALSE, FALSE))
                    /\ UNCHANGED filters
           ELSE IF picked.raised
           THEN Return("linkLightFilterToLights", filter_, Outcome("None", TRUE, FALSE))
                    /\ UNCHANGED filters
           ELSE IF picked.lights = <<>>
           THEN Return("linkLightFilterToLights", filter_, Outcome("None", FALSE, FALSE))
                    /\ UNCHANGED filters
           ELSE /\ create => pool # {}
                /\ filters' = IF create THEN [filters EXCEPT ![fresh] = DefaultFilters[fresh]]
                              ELSE filters
                /\ scan' = [Idle EXCEPT !.op = "linkLightFilterToLights", !.arg = filter_,
                                        !.pc = "lgt", !.lgts = picked.lights,
                                        !.rest = picked.lights,
                                        !.filtrs = IF create THEN <<fresh>> ELSE picked.filters]
                /\ UNCHANGED last
        /\ UNCHANGED <<selected, aiFilters, offScan>>

\* lines 980-987 and 999-1001: the next light of the next filter, or the return
NextLgt ==
    /\ scan.op = "linkLightFilterToLights" /\ scan.pc = "lgt"
    /\ IF scan.filtrs = <<>>
       THEN Return("linkLightFilterToLights", scan.arg,
                   Outcome("list", FALSE, <<aiFilters, filters>> #
                                            <<preFilters.aiFilters, preFilters.filters>>))
       ELSE IF scan.rest = <<>>
       THEN /\ scan' = [scan EXCEPT !.filtrs = Tail(@), !.rest = scan.lgts]
            /\ UNCHANGED last
       ELSE IF Head(scan.filtrs) \in Range(aiFilters[Head(scan.rest)])
       THEN /\ scan' = [scan EXCEPT !.rest = Tail(@)]
            /\ UNCHANGED last
       ELSE /\ scan' = [scan EXCEPT !.pc = "search", !.i = 0]
            /\ UNCHANGED last
    /\ UNCHANGED <<selected, aiFilters, filters, preFilters, offScan>>

\* lines 988-997: one turn of the search for a free index, or the plugging
SearchFree ==
    LET lgt == Head(scan.rest)
    IN  /\ scan.op = "linkLightFilterToLights" /\ scan.pc = "search"
        /\ IF PluggedAt(aiFilters[lgt], scan.i) # NoNode
           THEN /\ scan' = [scan EXCEPT !.i = NextIndex(scan.i)]
                /\ UNCHANGED aiFilters
           ELSE /\ scan.i \in Plugs
                /\ aiFilters' = [aiFilters EXCEPT ![lgt][scan.i] = Head(scan.filtrs)]
                /\ scan' = [scan EXCEPT !.pc = "lgt", !.rest = Tail(@), !.i = 0]
        /\ UNCHANGED <<selected, filters, preFilters, last, offScan>>

\* deleteSafelyLightFilter, lines 1758-1772: up to the loops
StartDelete(ai_filter) ==
    LET lightfilters == getUnusedLightFilters(ai_filter, aiFilters, filters)
    IN  /\ scan.op = "idle"
        /\ preFilters' = [aiFilters |-> aiFilters, filters |-> filters]
        /\ IF lightfilters.isNone
           THEN Return("deleteSafelyLightFilter", ai_filter, Outcome("None", FALSE, FALSE))
           ELSE /\ \E nullOrder \in Orderings(lightfilters.null) :
                   \E lightOrder \in Orderings(FilterLights) :
                       scan' = [Idle EXCEPT !.op = "deleteSafelyLightFilter", !.arg = ai_filter,
                                            !.pc = "null", !.filtrs = nullOrder,
                                            !.lgts = lightOrder,
                                            !.doomed = lightfilters.disconnected
                                                          \cup lightfilters.null]
                /\ UNCHANGED last
        /\ UNCHANGED <<selected, aiFilters, filters, offScan>>

\* lines 1779-1782 and 1802-1812: the next null filter and the plugs its
\* message goes to, or the deletion and the return
NextNull ==
    /\ scan.op = "deleteSafelyLightFilter" /\ scan.pc = "null"
    /\ IF scan.filtrs = <<>>
       THEN LET deleted == deleteFilters(aiFilters, filters, scan.doomed)
            IN  /\ aiFilters' = deleted.aiFilters
                /\ filters' = deleted.filters
                /\ Return("deleteSafelyLightFilter", scan.arg, Outcome("list", FALSE, TRUE))
       ELSE /\ scan' = [scan EXCEPT !.pc = "light",
                                    !.plugs = MessagePlugs(aiFilters, Head(scan.filtrs), scan.lgts)]
            /\ UNCHANGED <<aiFilters, filters, last>>
    /\ UNCHANGED <<selected, preFilters, offScan>>

\* lines 1784-1788: the next light the null filter is plugged into
NextLight ==
    /\ scan.op = "deleteSafelyLightFilter" /\ scan.pc = "light"
    /\ IF scan.plugs = <<>>
       THEN scan' = [scan EXCEPT !.pc = "null", !.filtrs = Tail(@)]
       ELSE scan' = [scan EXCEPT !.pc = "shift", !.i = 0,
                                 !.index = Head(scan.plugs)[2],
                                 !.num_filter =
                                     Cardinality(ConnectedPlugs(aiFilters[Head(scan.plugs)[1]]))]
    /\ UNCHANGED <<selected, aiFilters, filters, preFilters, last, offScan>>

\* lines 1789-1800: one turn of the shifting loop, or its exit.  An empty plug
\* read at line 1795 gives '' and pm.PyNode('') raises.
ShiftStep ==
    LET light == Head(scan.plugs)[1]
        arr   == aiFilters[light]
        i     == scan.i
        raise == /\ Return("deleteSafelyLightFilter", scan.arg,
                           Outcome("None", TRUE, aiFilters # preFilters.aiFilters))
                 /\ UNCHANGED aiFilters
        turn(arr1) == /\ aiFilters' = [aiFilters EXCEPT ![light] = arr1]
                      /\ scan' = [scan EXCEPT !.i = NextIndex(i)]
                      /\ UNCHANGED last
    IN  /\ scan.op = "deleteSafelyLightFilter" /\ scan.pc = "shift"
        /\ IF i >= scan.num_filter
           THEN /\ scan' = [scan EXCEPT !.pc = "light", !.plugs = Tail(@)]
                /\ UNCHANGED <<aiFilters, last>>
           ELSE IF i = scan.index
           THEN IF arr[i] # Head(scan.filtrs) THEN raise
                ELSE turn([arr EXCEPT ![i] = NoNode])
           ELSE IF i > scan.index
           THEN IF arr[i] = NoNode THEN raise
                ELSE turn([arr EXCEPT ![i] = NoNode, ![i - 1] = arr[i]])
           ELSE turn(arr)
        /\ UNCHANGED <<selected, filters, preFilters, offScan>>

\* the artist picks among the two lights that carry filters, between callbacks
ScanSelections == DistinctSeqs({"key", "fill"}, MaxSel)

SelectForScan ==
    /\ scan.op = "idle"
    /\ \E sel \in ScanSelections : selected' = sel
    /\ last' = NoCall
    /\ UNCHANGED <<aiFilters, filters, preFilters, scan, offScan>>

\* scenes with blockers on the key light only, blockerA null, no decay yet
ScanScenes ==
    {af \in FilterScenes : /\ af["fillShape"] = NoFilters["fillShape"]
                           /\ "decayA" \notin Range(af["keyShape"])}

InitScan ==
    /\ selected = <<>>
    /\ hierarchyChecked = FALSE
    /\ layers = [n \in LayerNames |-> NoLayer]
    /\ layerConflict = FALSE
    /\ aiFilters \in ScanScenes
    /\ filters = [DefaultFilters EXCEPT !["blockerA"].density = 0, !["decayA"].exists = FALSE]
    /\ preFilters = [aiFilters |-> aiFilters, filters |-> filters]
    /\ attrs = DefaultAttrs
    /\ preAttrs = DefaultAttrs
    /\ links = DefaultLinks
    /\ preLinks = DefaultLinks
    /\ hostCmd = NoHostCmd
    /\ helpers = NoHelpers
    /\ returned = NoValue
    /\ optimizer = DefaultOptimizer
    /\ css = DefaultStyles
    /\ look = DefaultLook
    /\ scan = Idle
    /\ last = NoCall

\* the statements of a running callback
StepScan ==
    \/ ScanDriver
    \/ ScanSlave
    \/ NextLgt
    \/ SearchFree
    \/ NextNull
    \/ NextLight
    \/ ShiftStep

NextScan ==
    \/ SelectForScan
    \/ StartTransfer
    \/ StartLink("aiLightBlocker")
    \/ StartDelete("aiLightBlocker")
    \/ StepScan

SpecScan == InitScan /\ [][NextScan]_vars

\* a callback runs in the host's single thread: once started, the interpreter
\* goes on to its next statement
FairSpecScan == SpecScan /\ WF_vars(StepScan)

\* C22: every operation runs to completion: the index-scanning loops of
\* transfertLightFilters, linkLightFilterToLights and deleteSafelyLightFilter
\* terminate, so a callback that has started eventually hands control back.
C22_CallbacksReturn == (scan.op # "idle") ~> (scan.op = "idle")

\* transfertLightFilters has returned after scanning the driver's filters and
\* unplugging those a slave had
C22_Witness ==
    /\ scan.op = "idle"
    /\ last.op = "transfertLightFilters" /\ last.mutated
    /\ last.sel = <<"key", "fill">>
    /\ preFilters.aiFilters["fillShape"][0] # NoNode
    /\ aiFilters["fillShape"] # preFilters.aiFilters["fillShape"]

====
